---- MODULE Spec2Model ----
(***************************************************************************)
(* Model of the WakeUp hand-interpretation engine (hand interpretation     *)
(* module, src/unnamed/part_001) and of the App component that drives it   *)
(* (src/v0.42/App.tsx).                                                    *)
(*                                                                         *)
(* Numbers.  The program computes on IEEE doubles; the model computes on   *)
(* integers in fixed point, with the units below, and draws its inputs     *)
(* from values on which every operation of the code is exact in these      *)
(* units:                                                                  *)
(*   normalized coordinates (cx, cy, w, h, keypoints) : 1/NormUnit         *)
(*   frame pixels (cxPx, xMin, ...)                    : 1/PxUnit pixel    *)
(*   scores, thresholds, roiExpansion                  : 1/Milli           *)
(*   landmark-model outputs (x, y, z of a landmark)    : 1/LmUnit          *)
(*   mapped landmarks x, y                             : 1/(PxUnit*LmUnit) *)
(*   pixel                                                                 *)
(* Math.exp is a table (ExpOverScale, ExpOdds) over the raw values the     *)
(* inputs use.                                                             *)
(***************************************************************************)
EXTENDS Integers, Sequences, FiniteSets, TLC

VARIABLES
    dPhase,          \* position of the detection pipeline run
    detectorOutput,  \* MLRawDetectorOutput: [rawBoxes, rawScores]
    overrides,       \* Partial<DetectionParams> given to prepareDetections
    meta,            \* FrameMeta
    prepared,        \* PreparedDetections returned by prepareDetections
    landmarkOutputs, \* MLRawLandmarksOutput[] | null given to interpretFrame
    options,         \* InterpretFrameOptions given to interpretFrame
    scene,           \* SceneInterpretation returned by interpretFrame
    relHands,        \* HandState[] given to inferInterHandRelations
    relations,       \* InterHandRelation[] it returned
    sceneInterpretation,  \* App state: the last scene delivered, NoScene = null
    detectedHandsCount,   \* App state
    useSmoothedLandmarks, \* App state: the smoothing toggle
    previewSize,          \* App: min(window width, window height), in pixels
    frameDimensionsRef,   \* App ref: {width, height} of the last frame
    handHistoryRef,       \* App ref: hand id -> the last landmark lists kept
    handsForDisplay,      \* App memo: the hands drawn
    memoDeps,             \* the dependencies handsForDisplay was computed from
    sceneRef,             \* identity of the object held in sceneInterpretation
    historyBefore,        \* handHistoryRef.current as the last memo run read it
    detectorState,        \* handDetector.state
    landmarksState,       \* handLandmarks.state
    frameCount,           \* camera frames handed to the frame processor so far
    detectionCount,       \* App state: frames processed
    poseLandmarks,        \* Landmark3D[] given to computeHandPose
    pose,                 \* HandPose it returned, NoPose before the call
    genPhase,             \* createPalmDetectionAnchors: position of the call
    genLayer,             \* its loop variable layer
    genY,                 \* its loop variable y
    genAnchors,           \* its local array anchors
    genResults,           \* the arrays returned by the calls made so far
    parseOutputs,         \* Float32Array[] given to parseLandmarkResult
    parsed,               \* MLRawLandmarksOutput it returned
    isTakingPhoto,        \* App state, as last set
    shutterRendered,      \* isTakingPhoto as of the last render: the value
                          \* handleTakePhoto closes over, disabled, !isActive
    cameraRef,            \* cameraRef.current: "null" or "camera"
    photosInFlight,       \* takePhoto promises not settled
    shutterPresses,       \* presses of the shutter button so far
    photosSettled,        \* outcomes of the takePhoto calls settled so far
    wvMessages,           \* WebView page: types of the messages handled
    wvGetUserMedia,       \* getUserMedia promises not settled
    wvTracksLive,         \* video.srcObject has live tracks
    wvReady,              \* handLandmarker and poseLandmarker are set
    animationFrame,       \* the page's animationFrame, 0 for null
    wvFrameRequests,      \* ids of the requestAnimationFrame callbacks pending
    wvSuspended,          \* calls of detectFrame suspended in an await
    wvIterations,         \* calls of detectFrame begun so far
    wvPosted,             \* types of the messages posted to React Native
    wvStopped             \* 'stop' was handled and no 'start' since

detVars == <<dPhase, detectorOutput, overrides, meta, prepared, landmarkOutputs,
             options, scene>>
relVars == <<relHands, relations>>
uiVars == <<useSmoothedLandmarks, previewSize>>
sceneVars == <<sceneInterpretation, sceneRef, detectedHandsCount, frameDimensionsRef>>
memoVars == <<handsForDisplay, memoDeps, historyBefore>>
loadVars == <<detectorState, landmarksState>>
countVars == <<frameCount, detectionCount>>
appVars == <<uiVars, sceneVars, memoVars, handHistoryRef, loadVars, countVars>>
poseVars == <<poseLandmarks, pose>>
genVars == <<genPhase, genLayer, genY, genAnchors, genResults>>
parseVars == <<parseOutputs, parsed>>
photoVars == <<isTakingPhoto, shutterRendered, cameraRef, photosInFlight,
               shutterPresses, photosSettled>>
webVars == <<wvMessages, wvGetUserMedia, wvTracksLive, wvReady, animationFrame,
             wvFrameRequests, wvSuspended, wvIterations, wvPosted, wvStopped>>
otherVars == <<genVars, parseVars, photoVars, webVars>>
vars == <<detVars, relVars, appVars, poseVars, otherVars>>

---------------------------------------------------------------------------
(* Units and bounds *)

NormUnit == 2 * 24
PxUnit == NormUnit * 8
Milli == 10 * 100
LmUnit == 1 + 1

NumAnchors == 3
MaxHandsBound == 3

PALM_KEYPOINT_COUNT == 7
DETECTION_VALUES_PER_ANCHOR == 18
DETECTOR_SCALE == 192
DEFAULT_FRAME_ID == 0

MathMin(a, b) == IF a < b THEN a ELSE b
MathMax(a, b) == IF a > b THEN a ELSE b
Clamp(v, lo, hi) == MathMin(MathMax(v, lo), hi)
CeilDiv(a, b) == (a + b - 1) \div b

\* obj?.f ?? dflt : an object is a function on the fields it has, and an
\* absent object is the function on no field
Abs(v) == IF v < 0 THEN -v ELSE v
FieldOr(obj, f, dflt) == IF f \in DOMAIN obj THEN obj[f] ELSE dflt
Has(obj, f) == f \in DOMAIN obj
\* the object with field f set to v
With(obj, f, v) == [g \in DOMAIN obj \cup {f} |-> IF g = f THEN v ELSE obj[g]]

RECURSIVE Flatten(_)
Flatten(ss) == IF ss = << >> THEN << >> ELSE Head(ss) \o Flatten(Tail(ss))

---------------------------------------------------------------------------
(* Anchor grid *)

AnchorOptions ==
    [inputWidth |-> 192, inputHeight |-> 192,
     strides |-> <<8, 16, 16, 16>>,
     aspectRatios |-> <<Milli>>,
     interpolatedScaleAspectRatio |-> Milli,
     fixedAnchorSize |-> TRUE]

\* anchors pushed for one grid cell: one per aspect ratio, plus the
\* interpolated one; all of size 1 x 1 under fixedAnchorSize
AnchorsPerCell ==
    Len(AnchorOptions.aspectRatios)
      + (IF AnchorOptions.interpolatedScaleAspectRatio > 0 THEN 1 ELSE 0)

LayerAnchors(layer) ==
    LET stride == AnchorOptions.strides[layer]
        fmHeight == CeilDiv(AnchorOptions.inputHeight, stride)
        fmWidth == CeilDiv(AnchorOptions.inputWidth, stride)
    IN  [k \in 1..(fmHeight * fmWidth * AnchorsPerCell) |->
           LET cell == (k - 1) \div AnchorsPerCell
               y == cell \div fmWidth
               x == cell % fmWidth
           IN  [xCenter |-> ((2 * x + 1) * NormUnit) \div (2 * fmWidth),
                yCenter |-> ((2 * y + 1) * NormUnit) \div (2 * fmHeight),
                width |-> NormUnit,
                height |-> NormUnit]]

createPalmDetectionAnchors ==
    Flatten([layer \in 1..Len(AnchorOptions.strides) |-> LayerAnchors(layer)])

palmDetectionAnchors == createPalmDetectionAnchors

---------------------------------------------------------------------------
(* Detection parameters *)

DEFAULT_DETECTION_PARAMS ==
    [scoreThreshold |-> 550, maxHands |-> 2, iouThreshold |-> 300,
     roiExpansion |-> 1250]

mergeDetectionParams(ovr) ==
    [scoreThreshold |->
        FieldOr(ovr, "scoreThreshold", DEFAULT_DETECTION_PARAMS.scoreThreshold),
     maxHands |->
        FieldOr(ovr, "maxHands", DEFAULT_DETECTION_PARAMS.maxHands),
     iouThreshold |->
        FieldOr(ovr, "iouThreshold", DEFAULT_DETECTION_PARAMS.iouThreshold),
     roiExpansion |->
        FieldOr(ovr, "roiExpansion", DEFAULT_DETECTION_PARAMS.roiExpansion)]

---------------------------------------------------------------------------
(* Detection decoder *)

\* Math.exp(v / DETECTOR_SCALE) in 1/NormUnit, on the raw size values used
ExpOverScale(v) ==
    CASE v = 0 -> 48
      [] v = -178 -> 19
      [] v = -301 -> 10
      [] v = -532 -> 3
      [] v = 133 -> 96

\* Math.exp(v) as a fraction <<numerator, denominator>>, v a logit in 1/Milli
ExpOdds(v) ==
    CASE v = 0 -> <<1, 1>>
      [] v = 201 -> <<11, 9>>
      [] v = -201 -> <<9, 11>>
      [] v = 1386 -> <<4, 1>>
      [] v = -1386 -> <<1, 4>>
      [] v = 2197 -> <<9, 1>>
      [] v = -2197 -> <<1, 9>>
      [] v = -847 -> <<3, 7>>
      [] v = 847 -> <<7, 3>>

\* the numerically stable sigmoid, in 1/Milli
Sigmoid(rawScore) ==
    IF rawScore >= 0
    THEN LET e == ExpOdds(-rawScore)
         IN  (Milli * e[2]) \div (e[2] + e[1])
    ELSE LET e == ExpOdds(rawScore)
         IN  (Milli * e[1]) \div (e[2] + e[1])

\* arr[i] of a typed array, 0-based
At(arr, i) == arr[i + 1]
\* arr[i] ?? dflt : undefined past the end
AtOr(arr, i, dflt) == IF i >= 0 /\ i < Len(arr) THEN arr[i + 1] ELSE dflt

\* anchor.center + (raw / DETECTOR_SCALE) * anchor.size
DecodeOffset(center, raw, size) == center + (raw * size) \div DETECTOR_SCALE

DecodeKeypoint(rawBoxes, boxOffset, anchor, k) ==
    LET kpX == At(rawBoxes, boxOffset + 4 + k * 2 + 1)
        kpY == At(rawBoxes, boxOffset + 4 + k * 2)
    IN  [x |-> DecodeOffset(anchor.xCenter, kpX, anchor.width),
         y |-> DecodeOffset(anchor.yCenter, kpY, anchor.height)]

\* the box read as x, y, w, h
DecodeBox_XBeforeY(rawBoxes, rawScores, anchorsInner, i) ==
    LET boxOffset == i * DETECTION_VALUES_PER_ANCHOR
        anchor == anchorsInner[i + 1]
        xCenter == At(rawBoxes, boxOffset + 0)
        yCenter == At(rawBoxes, boxOffset + 1)
        w == At(rawBoxes, boxOffset + 2)
        h == At(rawBoxes, boxOffset + 3)
    IN  [id |-> i,
         score |-> Sigmoid(AtOr(rawScores, i, 0)),
         cx |-> Clamp(DecodeOffset(anchor.xCenter, xCenter, anchor.width), 0, NormUnit),
         cy |-> Clamp(DecodeOffset(anchor.yCenter, yCenter, anchor.height), 0, NormUnit),
         w |-> Clamp((anchor.width * ExpOverScale(w)) \div NormUnit, 0, NormUnit),
         h |-> Clamp((anchor.height * ExpOverScale(h)) \div NormUnit, 0, NormUnit),
         palmKeypoints |->
            [k \in 1..PALM_KEYPOINT_COUNT |->
                DecodeKeypoint(rawBoxes, boxOffset, anchor, k - 1)]]

DecodeBox(rawBoxes, rawScores, anchorsInner, i) ==
    LET rawScore == AtOr(rawScores, i, AtOr(rawScores, i * 1, 0))
        score == Sigmoid(rawScore)
        boxOffset == i * DETECTION_VALUES_PER_ANCHOR
        anchor == anchorsInner[i + 1]
        yCenter == At(rawBoxes, boxOffset + 0)
        xCenter == At(rawBoxes, boxOffset + 1)
        h == At(rawBoxes, boxOffset + 2)
        w == At(rawBoxes, boxOffset + 3)
        cx == DecodeOffset(anchor.xCenter, xCenter, anchor.width)
        cy == DecodeOffset(anchor.yCenter, yCenter, anchor.height)
        decodedW == (anchor.width * ExpOverScale(w)) \div NormUnit
        decodedH == (anchor.height * ExpOverScale(h)) \div NormUnit
        palmKeypoints ==
            [k \in 1..PALM_KEYPOINT_COUNT |->
                DecodeKeypoint(rawBoxes, boxOffset, anchor, k - 1)]
    IN  [id |-> i,
         score |-> score,
         cx |-> Clamp(cx, 0, NormUnit),
         cy |-> Clamp(cy, 0, NormUnit),
         w |-> Clamp(decodedW, 0, NormUnit),
         h |-> Clamp(decodedH, 0, NormUnit),
         palmKeypoints |-> palmKeypoints]
    \* rotation (Math.atan2 of the first and last keypoint) is left out: no
    \* property below reads it

decodeDetectionsInternal(detectorOutputInner, anchorsInner) ==
    LET rawBoxes == detectorOutputInner.rawBoxes
        rawScores == detectorOutputInner.rawScores
        anchorsCount ==
            MathMin(Len(rawBoxes) \div DETECTION_VALUES_PER_ANCHOR, Len(anchorsInner))
    IN  [n \in 1..anchorsCount |-> DecodeBox(rawBoxes, rawScores, anchorsInner, n - 1)]

---------------------------------------------------------------------------
(* Suppressor: score filter, stable sort, greedy selection *)

\* [...filtered].sort((a, b) => b.score - a.score): Array.prototype.sort is
\* stable, so an element goes after every element whose score is >= its own
\* an unstable sort: an element goes before the elements of equal score
RECURSIVE InsertByScore_Unstable(_, _)
InsertByScore_Unstable(sorted, box) ==
    IF sorted = << >> THEN <<box>>
    ELSE IF Head(sorted).score > box.score
         THEN <<Head(sorted)>> \o InsertByScore_Unstable(Tail(sorted), box)
         ELSE <<box>> \o sorted

RECURSIVE InsertByScore(_, _)
InsertByScore(sorted, box) ==
    IF sorted = << >> THEN <<box>>
    ELSE IF Head(sorted).score >= box.score
         THEN <<Head(sorted)>> \o InsertByScore(Tail(sorted), box)
         ELSE <<box>> \o sorted

RECURSIVE SortByScore(_)
SortByScore(boxes) ==
    IF boxes = << >> THEN << >>
    ELSE InsertByScore(SortByScore(SubSeq(boxes, 1, Len(boxes) - 1)),
                       boxes[Len(boxes)])

\* IoU of two axis-aligned boxes as a fraction <<interArea, union>>
\* (<<0, 1>> for the early return 0).  Edges are taken doubled (2*cx -+ w),
\* which scales both areas by 4 and leaves the ratio as it is.
intersectionOverUnionLocal(a, b) ==
    LET axMin == 2 * a.cx - a.w
        ayMin == 2 * a.cy - a.h
        axMax == 2 * a.cx + a.w
        ayMax == 2 * a.cy + a.h
        bxMin == 2 * b.cx - b.w
        byMin == 2 * b.cy - b.h
        bxMax == 2 * b.cx + b.w
        byMax == 2 * b.cy + b.h
        interXMin == MathMax(axMin, bxMin)
        interYMin == MathMax(ayMin, byMin)
        interXMax == MathMin(axMax, bxMax)
        interYMax == MathMin(ayMax, byMax)
        interArea ==
            MathMax(0, interXMax - interXMin) * MathMax(0, interYMax - interYMin)
        areaA == MathMax(0, axMax - axMin) * MathMax(0, ayMax - ayMin)
        areaB == MathMax(0, bxMax - bxMin) * MathMax(0, byMax - byMin)
        union == areaA + areaB - interArea
    IN  IF union <= 0 THEN <<0, 1>> ELSE <<interArea, union>>

\* fraction > threshold (threshold in 1/Milli)
ExceedsThreshold(frac, threshold) == frac[1] * Milli > threshold * frac[2]

\* the comparison of line 647 turned round
Overlaps_Inverted(candidate, selected, params) ==
    \E k \in 1..Len(selected) :
        ~ExceedsThreshold(intersectionOverUnionLocal(candidate, selected[k]),
                          params.iouThreshold)

Overlaps(candidate, selected, params) ==
    \E k \in 1..Len(selected) :
        ExceedsThreshold(intersectionOverUnionLocal(candidate, selected[k]),
                         params.iouThreshold)

\* the loop of lines 644-656 from candidate number k on
RECURSIVE GreedySelect(_, _, _, _)
GreedySelect(sorted, k, selected, params) ==
    IF k > Len(sorted) THEN selected
    ELSE LET candidate == sorted[k]
             next == IF Overlaps(candidate, selected, params)
                     THEN selected
                     ELSE Append(selected, candidate)
         IN  IF Len(next) >= params.maxHands THEN next
             ELSE GreedySelect(sorted, k + 1, next, params)

\* the filter of line 613 with > for >=
FilterByScore_Strict(decoded, params) ==
    SelectSeq(decoded, LAMBDA box : box.score > params.scoreThreshold)

FilterByScore(decoded, params) ==
    SelectSeq(decoded, LAMBDA box : box.score >= params.scoreThreshold)

---------------------------------------------------------------------------
(* Frame / ROI mapper *)

PxPerNorm == PxUnit \div NormUnit

mapBoxToFrame(box, m) ==
    LET cxPx == box.cx * m.frameWidth * PxPerNorm
        cyPx == box.cy * m.frameHeight * PxPerNorm
        wPx == box.w * m.frameWidth * PxPerNorm
        hPx == box.h * m.frameHeight * PxPerNorm
    IN  [id |-> box.id, score |-> box.score,
         cx |-> box.cx, cy |-> box.cy, w |-> box.w, h |-> box.h,
         palmKeypoints |-> box.palmKeypoints,
         cxPx |-> cxPx, cyPx |-> cyPx, wPx |-> wPx, hPx |-> hPx,
         xMin |-> cxPx - wPx \div 2,
         yMin |-> cyPx - hPx \div 2,
         xMax |-> cxPx + wPx \div 2,
         yMax |-> cyPx + hPx \div 2,
         palmKeypointsPx |->
            [k \in 1..Len(box.palmKeypoints) |->
                [x |-> box.palmKeypoints[k].x * m.frameWidth * PxPerNorm,
                 y |-> box.palmKeypoints[k].y * m.frameHeight * PxPerNorm]]]

\* clipped at the frame size instead of the last pixel
expandRoiForLandmarks_ClipAtSize(box, m, expansion) ==
    LET size == (MathMax(box.wPx, box.hPx) * expansion) \div Milli
        half == size \div 2
        xMin == Clamp(box.cxPx - half, 0, m.frameWidth * PxUnit)
        yMin == Clamp(box.cyPx - half, 0, m.frameHeight * PxUnit)
        xMax == Clamp(box.cxPx + half, 0, m.frameWidth * PxUnit)
        yMax == Clamp(box.cyPx + half, 0, m.frameHeight * PxUnit)
    IN  [box EXCEPT !.wPx = xMax - xMin, !.hPx = yMax - yMin,
                    !.xMin = xMin, !.yMin = yMin, !.xMax = xMax, !.yMax = yMax]

expandRoiForLandmarks(box, m, expansion) ==
    LET size == (MathMax(box.wPx, box.hPx) * expansion) \div Milli
        half == size \div 2
        cx == box.cxPx
        cy == box.cyPx
        xMin == MathMin(MathMax(cx - half, 0), (m.frameWidth - 1) * PxUnit)
        yMin == MathMin(MathMax(cy - half, 0), (m.frameHeight - 1) * PxUnit)
        xMax == MathMin(MathMax(cx + half, 0), (m.frameWidth - 1) * PxUnit)
        yMax == MathMin(MathMax(cy + half, 0), (m.frameHeight - 1) * PxUnit)
    IN  [box EXCEPT !.wPx = xMax - xMin, !.hPx = yMax - yMin,
                    !.xMin = xMin, !.yMin = yMin, !.xMax = xMax, !.yMax = yMax]

---------------------------------------------------------------------------
(* prepareDetections: decode + NMS *)

\* numDetectionsBeforeNMS counted after the score filter
prepareDetections_CountsFiltered(detectorOutputArg, anchors, m, ovr) ==
    LET params == mergeDetectionParams(ovr)
        decoded == decodeDetectionsInternal(detectorOutputArg, anchors)
        filtered == FilterByScore(decoded, params)
        sorted == SortByScore(filtered)
        selected == GreedySelect(sorted, 1, << >>, params)
        boxesOnFrame == [k \in 1..Len(selected) |-> mapBoxToFrame(selected[k], m)]
        roiBoxes ==
            [k \in 1..Len(boxesOnFrame) |->
                expandRoiForLandmarks(boxesOnFrame[k], m, params.roiExpansion)]
    IN  [boxes |-> selected,
         boxesOnFrame |-> boxesOnFrame,
         roiBoxesOnFrame |-> roiBoxes,
         numDetectionsBeforeNMS |-> Len(filtered)]

prepareDetections(detectorOutputArg, anchors, m, ovr) ==
    LET params == mergeDetectionParams(ovr)
        decoded == decodeDetectionsInternal(detectorOutputArg, anchors)
        filtered == FilterByScore(decoded, params)
        sorted == SortByScore(filtered)
        selected == GreedySelect(sorted, 1, << >>, params)
        boxesOnFrame == [k \in 1..Len(selected) |-> mapBoxToFrame(selected[k], m)]
        roiBoxes ==
            [k \in 1..Len(boxesOnFrame) |->
                expandRoiForLandmarks(boxesOnFrame[k], m, params.roiExpansion)]
    IN  [boxes |-> selected,
         boxesOnFrame |-> boxesOnFrame,
         roiBoxesOnFrame |-> roiBoxes,
         numDetectionsBeforeNMS |-> Len(decoded)]

---------------------------------------------------------------------------
(* Landmark mapper and hand descriptor *)

LANDMARK_COUNT == 21

\* the landmark vector read from its end: index order not preserved
mapLandmarksToFrame_Reversed(raw, roi) ==
    [n \in 1..LANDMARK_COUNT |->
        LET i == LANDMARK_COUNT - n
            base == i * 3
            xNorm == At(raw.landmarks, base + 0)
            yNorm == At(raw.landmarks, base + 1)
            zRel == At(raw.landmarks, base + 2)
            limitedX == MathMin(MathMax(xNorm, -(LmUnit \div 2)), (3 * LmUnit) \div 2)
            limitedY == MathMin(MathMax(yNorm, -(LmUnit \div 2)), (3 * LmUnit) \div 2)
        IN  [x |-> roi.xMin * LmUnit + limitedX * roi.wPx,
             y |-> roi.yMin * LmUnit + limitedY * roi.hPx,
             z |-> zRel]]

\* x and y scaled without the limit to [-0.5, 1.5]
mapLandmarksToFrame_Unclamped(raw, roi) ==
    [n \in 1..LANDMARK_COUNT |->
        LET base == (n - 1) * 3
        IN  [x |-> roi.xMin * LmUnit + At(raw.landmarks, base + 0) * roi.wPx,
             y |-> roi.yMin * LmUnit + At(raw.landmarks, base + 1) * roi.hPx,
             z |-> At(raw.landmarks, base + 2)]]

mapLandmarksToFrame(raw, roi) ==
    [n \in 1..LANDMARK_COUNT |->
        LET i == n - 1
            base == i * 3
            xNorm == At(raw.landmarks, base + 0)
            yNorm == At(raw.landmarks, base + 1)
            zRel == At(raw.landmarks, base + 2)
            limitedX == MathMin(MathMax(xNorm, -(LmUnit \div 2)), (3 * LmUnit) \div 2)
            limitedY == MathMin(MathMax(yNorm, -(LmUnit \div 2)), (3 * LmUnit) \div 2)
        IN  [x |-> roi.xMin * LmUnit + limitedX * roi.wPx,
             y |-> roi.yMin * LmUnit + limitedY * roi.hPx,
             z |-> zRel]]

\* depthApprox (the mean of z) is left out: no property below reads it
computeHandSpatialInfo(detectionBox, landmarks, m) ==
    LET normalizedCenter ==
            [x |-> Clamp(detectionBox.cxPx \div m.frameWidth, 0, PxUnit),
             y |-> Clamp(detectionBox.cyPx \div m.frameHeight, 0, PxUnit)]
        ddx == normalizedCenter.x - PxUnit \div 2
        ddy == normalizedCenter.y - PxUnit \div 2
    IN  [center |-> [x |-> detectionBox.cxPx, y |-> detectionBox.cyPx],
         normalizedCenter |-> normalizedCenter,
         size |-> [w |-> detectionBox.wPx, h |-> detectionBox.hPx],
         isNearCenter |-> 16 * (ddx * ddx + ddy * ddy) < PxUnit * PxUnit]

---------------------------------------------------------------------------
(* Hand pose: finger states, pinch and spread *)

\* A JavaScript number that a division may have produced: a fraction, or
\* one of the values IEEE 754 gives a division by zero.
NaN == [kind |-> "NaN"]
Infinity == [kind |-> "Infinity"]
NegativeInfinity == [kind |-> "-Infinity"]
Finite(n, d) == [kind |-> "finite", num |-> n, den |-> d]

\* a / b of two integers, b >= 0
Quotient(a, b) ==
    IF b # 0 THEN Finite(a, b)
    ELSE IF a = 0 THEN NaN
    ELSE IF a > 0 THEN Infinity ELSE NegativeInfinity

\* 1 - v
OneMinus(v) ==
    CASE v.kind = "NaN" -> NaN
      [] v.kind = "Infinity" -> NegativeInfinity
      [] v.kind = "-Infinity" -> Infinity
      [] OTHER -> Finite(v.den - v.num, v.den)

\* Math.max(v, k) and Math.min(v, k), k an integer: NaN if v is NaN
MathMaxNumber(v, k) ==
    CASE v.kind = "NaN" -> NaN
      [] v.kind = "Infinity" -> Infinity
      [] v.kind = "-Infinity" -> Finite(k, 1)
      [] OTHER -> IF v.num < k * v.den THEN Finite(k, 1) ELSE v
MathMinNumber(v, k) ==
    CASE v.kind = "NaN" -> NaN
      [] v.kind = "Infinity" -> Finite(k, 1)
      [] v.kind = "-Infinity" -> NegativeInfinity
      [] OTHER -> IF v.num > k * v.den THEN Finite(k, 1) ELSE v

\* v > 0.6
AboveSixTenths(v) ==
    CASE v.kind = "NaN" -> FALSE
      [] v.kind = "Infinity" -> TRUE
      [] v.kind = "-Infinity" -> FALSE
      [] OTHER -> 5 * v.num > 3 * v.den

\* the integer part of the square root of v, lo * lo <= v < hi * hi
RECURSIVE SqrtBetween(_, _, _)
SqrtBetween(v, lo, hi) ==
    IF hi - lo <= 1 THEN lo
    ELSE LET mid == (lo + hi) \div 2
         IN  IF mid * mid <= v THEN SqrtBetween(v, mid, hi)
             ELSE SqrtBetween(v, lo, mid)

\* Math.hypot(a.x - b.x, a.y - b.y), in the unit of the landmarks; exact on
\* the landmarks the model computes poses of
distance2D(a, b) ==
    LET dx == a.x - b.x
        dy == a.y - b.y
    IN  SqrtBetween(dx * dx + dy * dy, 0, 2 ^ 15)

\* [mcp, pip, dip, tip] of each finger, 0-based as in the code
FINGER_INDICES ==
    [Thumb |-> <<1, 2, 3, 4>>, Index |-> <<5, 6, 7, 8>>, Middle |-> <<9, 10, 11, 12>>,
     Ring |-> <<13, 14, 15, 16>>, Pinky |-> <<17, 18, 19, 20>>]

\* a landmark one of whose coordinates is NaN carries a field nan
IsNaNPoint(point) == Has(point, "nan")

\* a - b, with nan set when a component is NaN
subtractVec(a, b) ==
    [v |-> <<a.x - b.x, a.y - b.y, FieldOr(a, "z", 0) - FieldOr(b, "z", 0)>>,
     nan |-> IsNaNPoint(a) \/ IsNaNPoint(b)]

DotOf(a, b) == a[1] * b[1] + a[2] * b[2] + a[3] * b[3]

RECURSIVE Gcd(_, _)
Gcd(m, n) == IF n = 0 THEN Abs(m) ELSE Gcd(n, Abs(m) % Abs(n))

\* a non-zero vector divided by the gcd of its components: the direction is
\* the same, and so is every angle it makes
Reduced(v) ==
    LET g == Gcd(Gcd(v[1], v[2]), v[3])
    IN  <<v[1] \div g, v[2] \div g, v[3] \div g>>

\* the angle angleBetween returns: NaN, or the acos of dot / sqrt(scale).
\* A norm below EPSILON is a norm of 0 on integer coordinates, and a NaN
\* norm is not below EPSILON.
angleBetween(a, b) ==
    LET zeroA == ~a.nan /\ a.v = <<0, 0, 0>>
        zeroB == ~b.nan /\ b.v = <<0, 0, 0>>
    IN  IF zeroA \/ zeroB THEN [kind |-> "acos", dot |-> 1, scale |-> 1]
        ELSE IF a.nan \/ b.nan THEN NaN
        ELSE [kind |-> "acos", dot |-> DotOf(Reduced(a.v), Reduced(b.v)),
              scale |-> DotOf(Reduced(a.v), Reduced(a.v))
                        * DotOf(Reduced(b.v), Reduced(b.v))]

\* cos^2 of the two thresholds, in 1/CosSqScale
CosSqScale == 10 * 10 * 10 * 10 * 10
CosSqOfDegrees(deg) == CASE deg = 55 -> 32899 [] deg = 75 -> 6699

\* an angle that is less than deg degrees whatever the sign of its cosine
AngleBelow_IgnoresSign(angle, deg) ==
    angle.dot * angle.dot * CosSqScale > CosSqOfDegrees(deg) * angle.scale

\* (angle * 180) / Math.PI < deg, deg below 90: the cosine is above cos(deg)
AngleBelow(angle, deg) ==
    /\ angle.dot > 0
    /\ angle.dot * angle.dot * CosSqScale > CosSqOfDegrees(deg) * angle.scale

\* the body of the forEach over the fingers, lines 421-443
FingerStateOf(landmarks, finger) ==
    LET mcp == landmarks[FINGER_INDICES[finger][1] + 1]
        pip == landmarks[FINGER_INDICES[finger][2] + 1]
        tip == landmarks[FINGER_INDICES[finger][4] + 1]
        angle == angleBetween(subtractVec(mcp, pip), subtractVec(pip, tip))
    IN  IF angle.kind = "NaN" THEN "Unknown"
        ELSE IF AngleBelow(angle, 55) THEN "Open"
        ELSE IF AngleBelow(angle, 75) THEN "Pointing"
        ELSE "Closed"

FingerStates(landmarks) ==
    [finger \in DOMAIN FINGER_INDICES |-> FingerStateOf(landmarks, finger)]

\* a pose whose palmSpan is half the palm size, however small
computeHandPose_NoMinimumSpan(landmarks) ==
    LET palmSize == distance2D(landmarks[1], landmarks[10])
                    + distance2D(landmarks[1], landmarks[14])
        palmSpanTwice == palmSize
        pinchDistance == distance2D(landmarks[5], landmarks[9])
        pinchStrength ==
            MathMinNumber(MathMaxNumber(
                OneMinus(Quotient(5 * pinchDistance, 2 * palmSpanTwice)), 0), 1)
    IN  [fingers |-> FingerStates(landmarks),
         isPinching |-> AboveSixTenths(pinchStrength),
         pinchStrength |-> pinchStrength,
         spread |-> MathMinNumber(MathMaxNumber(
                        Quotient(distance2D(landmarks[6], landmarks[18]), palmSize),
                        0), 1)]

\* computeHandPose; landmarks[i] of the code is
\* landmarks[i + 1] here.  palmSpanTwice is 2 * palmSpan, 1 being a pixel;
\* pinchDistance / (palmSpan * 0.8) is 5 * pinchDistance / (2 * palmSpanTwice)
computeHandPose(landmarks) ==
    LET palmSize == distance2D(landmarks[1], landmarks[10])
                    + distance2D(landmarks[1], landmarks[14])
        palmSpanTwice == MathMax(palmSize, 2 * PxUnit * LmUnit)
        pinchDistance == distance2D(landmarks[5], landmarks[9])
        pinchStrength ==
            MathMinNumber(MathMaxNumber(
                OneMinus(Quotient(5 * pinchDistance, 2 * palmSpanTwice)), 0), 1)
    IN  [fingers |-> FingerStates(landmarks),
         isPinching |-> AboveSixTenths(pinchStrength),
         pinchStrength |-> pinchStrength,
         spread |-> MathMinNumber(MathMaxNumber(
                        Quotient(distance2D(landmarks[6], landmarks[18]), palmSize),
                        0), 1)]

---------------------------------------------------------------------------
(* Relation inferencer *)

\* the Crossing test of line 519 made on the vertical offset
RelationOf_CrossingOnDy(handA, handB) ==
    LET dx == handA.spatial.center.x - handB.spatial.center.x
        dy == handA.spatial.center.y - handB.spatial.center.y
        distanceSq == dx * dx + dy * dy
        sizeSum == handA.spatial.size.w + handB.spatial.size.w
        handshake ==
            /\ handA.handedness # handB.handedness
            /\ 5 * Abs(handA.spatial.center.y - handB.spatial.center.y) < sizeSum
            /\ 25 * distanceSq < 16 * sizeSum * sizeSum
        close == 25 * distanceSq < 9 * sizeSum * sizeSum
        crossing == 4 * Abs(dy) < sizeSum
    IN  [handIdA |-> handA.id,
         handIdB |-> handB.id,
         type |-> IF handshake THEN "HandshakeCandidate"
                  ELSE IF close THEN "HandsClose"
                  ELSE IF crossing THEN "Crossing"
                  ELSE "Unknown",
         distanceSq |-> distanceSq,
         confidence |-> IF handshake THEN 800
                        ELSE IF close THEN 600
                        ELSE IF crossing THEN 400
                        ELSE 0]

\* the HandsClose test of line 516 made before the HandshakeCandidate test
RelationOf_CloseFirst(handA, handB) ==
    LET dx == handA.spatial.center.x - handB.spatial.center.x
        dy == handA.spatial.center.y - handB.spatial.center.y
        distanceSq == dx * dx + dy * dy
        sizeSum == handA.spatial.size.w + handB.spatial.size.w
        handshake ==
            /\ handA.handedness # handB.handedness
            /\ 5 * Abs(handA.spatial.center.y - handB.spatial.center.y) < sizeSum
            /\ 25 * distanceSq < 16 * sizeSum * sizeSum
        close == 25 * distanceSq < 9 * sizeSum * sizeSum
        crossing == 4 * Abs(dx) < sizeSum
    IN  [handIdA |-> handA.id,
         handIdB |-> handB.id,
         type |-> IF close THEN "HandsClose"
                  ELSE IF handshake THEN "HandshakeCandidate"
                  ELSE IF crossing THEN "Crossing"
                  ELSE "Unknown",
         distanceSq |-> distanceSq,
         confidence |-> IF close THEN 600
                        ELSE IF handshake THEN 800
                        ELSE IF crossing THEN 400
                        ELSE 0]

\* the Crossing test of line 519 made on dx itself, without Math.abs
RelationOf_SignedDx(handA, handB) ==
    LET dx == handA.spatial.center.x - handB.spatial.center.x
        dy == handA.spatial.center.y - handB.spatial.center.y
        distanceSq == dx * dx + dy * dy
        sizeSum == handA.spatial.size.w + handB.spatial.size.w
        handshake ==
            /\ handA.handedness # handB.handedness
            /\ 5 * Abs(handA.spatial.center.y - handB.spatial.center.y) < sizeSum
            /\ 25 * distanceSq < 16 * sizeSum * sizeSum
        close == 25 * distanceSq < 9 * sizeSum * sizeSum
        crossing == 4 * dx < sizeSum
    IN  [handIdA |-> handA.id,
         handIdB |-> handB.id,
         type |-> IF handshake THEN "HandshakeCandidate"
                  ELSE IF close THEN "HandsClose"
                  ELSE IF crossing THEN "Crossing"
                  ELSE "Unknown",
         distanceSq |-> distanceSq,
         confidence |-> IF handshake THEN 800
                        ELSE IF close THEN 600
                        ELSE IF crossing THEN 400
                        ELSE 0]

\* One pair.  Math.hypot(dx, dy) is kept as its square, distanceSq, and a
\* comparison distancePx < avgSize * c is made on the squares (both sides are
\* >= 0); avgSize = sizeSum / 2.
RelationOf(handA, handB) ==
    LET dx == handA.spatial.center.x - handB.spatial.center.x
        dy == handA.spatial.center.y - handB.spatial.center.y
        distanceSq == dx * dx + dy * dy
        sizeSum == handA.spatial.size.w + handB.spatial.size.w
        handshake ==
            /\ handA.handedness # handB.handedness
            /\ 5 * Abs(handA.spatial.center.y - handB.spatial.center.y) < sizeSum
            /\ 25 * distanceSq < 16 * sizeSum * sizeSum
        close == 25 * distanceSq < 9 * sizeSum * sizeSum
        crossing == 4 * Abs(dx) < sizeSum
    IN  [handIdA |-> handA.id,
         handIdB |-> handB.id,
         type |-> IF handshake THEN "HandshakeCandidate"
                  ELSE IF close THEN "HandsClose"
                  ELSE IF crossing THEN "Crossing"
                  ELSE "Unknown",
         distanceSq |-> distanceSq,
         confidence |-> IF handshake THEN 800
                        ELSE IF close THEN 600
                        ELSE IF crossing THEN 400
                        ELSE 0]

\* the inner loop started at j = i instead of j = i + 1
inferInterHandRelations_FromSelf(hands) ==
    IF Len(hands) < 2 THEN << >>
    ELSE Flatten([i \in 1..Len(hands) |->
                    [k \in 1..(Len(hands) - i + 1) |->
                        RelationOf(hands[i], hands[i + k - 1])]])

inferInterHandRelations(hands) ==
    IF Len(hands) < 2 THEN << >>
    ELSE Flatten([i \in 1..Len(hands) |->
                    [k \in 1..(Len(hands) - i) |-> RelationOf(hands[i], hands[i + k])]])

---------------------------------------------------------------------------
(* interpretFrame *)

\* an optional field: << >> when undefined, <<value>> when present
OptionalOf(obj, f) == IF Has(obj, f) THEN <<obj[f]>> ELSE << >>

RECURSIVE SumOfValues(_)
SumOfValues(values) ==
    IF values = << >> THEN 0 ELSE Head(values) + SumOfValues(Tail(values))

\* visibilities and their mean in 1/Milli
visibilityReduceMean(values) ==
    LET sum == SumOfValues(values)
        mean == sum \div MathMax(1, Len(values))
    IN  MathMin(MathMax(mean, 0), Milli)

\* visMean is 0 when there is no visibility
computeHandQuality_UnseenIsZero(detectionScore, landmarkScore, visibility) ==
    LET visMean == IF visibility # << >> /\ Len(visibility[1]) > 0
                   THEN visibilityReduceMean(visibility[1])
                   ELSE 0
        score == (5 * detectionScore + 3 * landmarkScore + 2 * visMean) \div 10
    IN  MathMin(MathMax(score, 0), Milli)

\* visibility is optional (OptionalOf); scores in 1/Milli
computeHandQuality(detectionScore, landmarkScore, visibility) ==
    LET visMean == IF visibility # << >> /\ Len(visibility[1]) > 0
                   THEN visibilityReduceMean(visibility[1])
                   ELSE Milli
        score == (5 * detectionScore + 3 * landmarkScore + 2 * visMean) \div 10
    IN  MathMin(MathMax(score, 0), Milli)

\* rawLandmarks.landmarkScore ?? rawLandmarks.presenceScore
\*   ?? rawLandmarks.handednessScore
LandmarkScoreOf(rawLandmarks) ==
    FieldOr(rawLandmarks, "landmarkScore",
            FieldOr(rawLandmarks, "presenceScore", rawLandmarks.handednessScore))

\* qualityScore, orientation and pose are added with the properties that
\* read them
\* hands named by their slot alone
BuildHand_SlotOnlyId(prep, landmarkOutputsArg, m, i) ==
    LET roi == prep.roiBoxesOnFrame[i + 1]
        detectionBox == prep.boxesOnFrame[i + 1]
        rawLandmarks == landmarkOutputsArg[i + 1]
        mappedLandmarks == mapLandmarksToFrame(rawLandmarks, roi)
    IN  [id |-> <<DEFAULT_FRAME_ID, i>>,
         handedness |-> rawLandmarks.handedness,
         handednessScore |-> rawLandmarks.handednessScore,
         qualityScore |-> computeHandQuality(detectionBox.score,
                                             LandmarkScoreOf(rawLandmarks),
                                             OptionalOf(rawLandmarks, "visibility")),
         detectionBox |-> detectionBox,
         landmarks |-> mappedLandmarks,
         spatial |-> computeHandSpatialInfo(detectionBox, mappedLandmarks, m)]

BuildHand(prep, landmarkOutputsArg, m, i) ==
    LET roi == prep.roiBoxesOnFrame[i + 1]
        detectionBox == prep.boxesOnFrame[i + 1]
        rawLandmarks == landmarkOutputsArg[i + 1]
        mappedLandmarks == mapLandmarksToFrame(rawLandmarks, roi)
    IN  [id |-> <<FieldOr(m, "frameId", DEFAULT_FRAME_ID), i>>,
         handedness |-> rawLandmarks.handedness,
         handednessScore |-> rawLandmarks.handednessScore,
         qualityScore |-> computeHandQuality(detectionBox.score,
                                             LandmarkScoreOf(rawLandmarks),
                                             OptionalOf(rawLandmarks, "visibility")),
         detectionBox |-> detectionBox,
         landmarks |-> mappedLandmarks,
         spatial |-> computeHandSpatialInfo(detectionBox, mappedLandmarks, m)]

interpretFrame(detectorOutputArg, landmarkOutputsPerHand, anchors, m, opts) ==
    LET params == mergeDetectionParams(FieldOr(opts, "detectionParams", << >>))
        prep == IF Has(opts, "precomputed") THEN opts.precomputed
                ELSE prepareDetections(detectorOutputArg, anchors, m, params)
        usableCount == MathMin(Len(prep.roiBoxesOnFrame), Len(landmarkOutputsPerHand))
        hands == [n \in 1..usableCount |->
                    BuildHand(prep, landmarkOutputsPerHand, m, n - 1)]
    IN  [frameId |-> FieldOr(m, "frameId", DEFAULT_FRAME_ID),
         hands |-> hands,
         interHandRelations |-> inferInterHandRelations(hands),
         rawMeta |-> [numDetectionsBeforeNMS |-> prep.numDetectionsBeforeNMS,
                      frameWidth |-> m.frameWidth,
                      frameHeight |-> m.frameHeight]]

---------------------------------------------------------------------------
(* Inputs of the detection pipeline *)

\* the anchors handed to prepareDetections: NumAnchors consecutive anchors of
\* the grid, from the two anchors of cell (11, 11) of the stride-8 layer on
AnchorBase == 2 * (11 * 24 + 11)
ModelAnchors == [k \in 1..NumAnchors |-> palmDetectionAnchors[AnchorBase + k]]

Repeat(v, n) == [k \in 1..n |-> v]

\* one anchor's 18 raw values: y, x, h, w, then 7 keypoints (y, x)
Row(dy, dx, hRaw, wRaw, kpRaw) ==
    <<dy, dx, hRaw, wRaw>> \o Repeat(kpRaw, 2 * PALM_KEYPOINT_COUNT)

RowBase == Row(0, 0, -301, -178, 0)       \* w 19/48, h 10/48 on the anchor
RowNear == Row(0, 4, -301, -178, 0)       \* RowBase moved by 1/48 in x
RowFar == Row(0, 80, -301, -178, 4)       \* RowBase moved by 20/48 in x
RowFlat == Row(0, 0, -532, -178, 0)       \* w 19/48, h 3/48 on the anchor
RowOut == Row(-192, -192, 133, 133, -192) \* off the frame, size above 1

\* what the detector may put out for one anchor: <<score logit, row>>
AnchorOutputs ==
    { <<2197, RowBase>>, <<1386, RowNear>>, <<1386, RowFar>>, <<201, RowFlat>>,
      <<0, RowBase>>, <<-847, RowOut>>, <<1386, RowOut>> }

\* length of rawBoxes relative to 18 values per anchor: a ragged short
\* tensor, the exact one, one row too many
LengthAdjust == {-5, 0, DETECTION_VALUES_PER_ANCHOR}

AdjustLength(arr, adj) ==
    IF adj < 0 THEN SubSeq(arr, 1, Len(arr) + adj) ELSE arr \o Repeat(0, adj)

MakeDetectorOutput(outs, adj, scoresCut) ==
    [rawBoxes |-> AdjustLength(Flatten([k \in 1..Len(outs) |-> outs[k][2]]), adj),
     rawScores |-> SubSeq([k \in 1..Len(outs) |-> outs[k][1]], 1, Len(outs) - scoresCut)]

DetectorOutputs ==
    { MakeDetectorOutput(outs, adj[1], adj[2]) :
        outs \in [1..NumAnchors -> AnchorOutputs],
        adj \in {<<0, 0>>, <<-5, 0>>, <<DETECTION_VALUES_PER_ANCHOR, 0>>, <<0, 1>>} }

\* Partial<DetectionParams>: none, maxHands alone, the App's two overrides
\* (App.tsx:430-433), and other thresholds
OverrideSet ==
    { << >> }
      \cup { [maxHands |-> k] : k \in 0..MaxHandsBound }
      \cup { [maxHands |-> 2, scoreThreshold |-> 550],
             [scoreThreshold |-> 500, iouThreshold |-> 900] }

Metas == { [frameWidth |-> 4, frameHeight |-> 3, frameId |-> 7] }

NoPrepared ==
    [boxes |-> << >>, boxesOnFrame |-> << >>, roiBoxesOnFrame |-> << >>,
     numDetectionsBeforeNMS |-> 0]

NoScene ==
    [frameId |-> -1, hands |-> << >>, interHandRelations |-> << >>,
     rawMeta |-> [numDetectionsBeforeNMS |-> 0, frameWidth |-> 0, frameHeight |-> 0]]

\* the variables of a run that is not part of the specification at hand
RelIdle == relHands = << >> /\ relations = << >>

NoPose == [fingers |-> << >>]
PoseIdle == poseLandmarks = << >> /\ pose = NoPose

\* no call of createPalmDetectionAnchors made
GenIdle ==
    /\ genPhase = "idle"
    /\ genLayer = 0
    /\ genY = 0
    /\ genAnchors = << >>
    /\ genResults = << >>

\* no call of parseLandmarkResult made
ParseIdle == parseOutputs = << >> /\ parsed = << >>

\* the shutter never pressed, no Camera mounted
PhotoIdle ==
    /\ isTakingPhoto = FALSE
    /\ shutterRendered = FALSE
    /\ cameraRef = "null"
    /\ photosInFlight = 0
    /\ shutterPresses = 0
    /\ photosSettled = << >>

\* the WebView page as loaded: no message handled, nothing scheduled
WebIdle ==
    /\ wvMessages = << >>
    /\ wvGetUserMedia = 0
    /\ wvTracksLive = FALSE
    /\ wvReady = FALSE
    /\ animationFrame = 0
    /\ wvFrameRequests = {}
    /\ wvSuspended = 0
    /\ wvIterations = 0
    /\ wvPosted = << >>
    /\ wvStopped = FALSE

OthersIdle == GenIdle /\ ParseIdle /\ PhotoIdle /\ WebIdle

DetIdle ==
    /\ dPhase = "idle"
    /\ detectorOutput = [rawBoxes |-> << >>, rawScores |-> << >>]
    /\ overrides = << >>
    /\ meta = [frameWidth |-> 1, frameHeight |-> 1]
    /\ prepared = NoPrepared
    /\ landmarkOutputs = << >>
    /\ options = << >>
    /\ scene = NoScene

---------------------------------------------------------------------------
(* App: the landmark stabilizer (handsForDisplay) *)

maxHistorySize == 3

\* a || b of JavaScript on numbers
OrElse(a, b) == IF a # 0 THEN a ELSE b

\* Floating point.  The stabilizer adds and divides doubles (53 significant
\* bits); the model keeps FloatBits significant bits, rounding to nearest,
\* ties to even, as IEEE 754 does.  Every landmark coordinate the model feeds
\* the stabilizer is an integer below 2^FloatBits in absolute value, so it is
\* a value of the format, as a coordinate of the program is a double.
FloatBits == 13
FracBits == FloatBits + 2

Pow2(n) == 2 ^ n

\* num / den (num >= 0, den > 0) rounded to the nearest integer, ties to even
RoundHalfEven(num, den) ==
    LET q == num \div den
        r == num % den
    IN  IF 2 * r < den THEN q
        ELSE IF 2 * r > den THEN q + 1
        ELSE IF q % 2 = 0 THEN q ELSE q + 1

\* the spacing of the format's values around num / den: the least power of
\* two q with num / den < 2^FloatBits * q
RECURSIVE FloatQuantum(_, _, _)
FloatQuantum(num, den, q) ==
    IF num \div (den * q) < Pow2(FloatBits) THEN q ELSE FloatQuantum(num, den, 2 * q)

\* num / den rounded to a value of the format, as an integer
RoundToFloat(num, den) ==
    LET mag == IF num < 0 THEN -num ELSE num
        q == FloatQuantum(mag, den, 1)
        rounded == RoundHalfEven(mag, den * q) * q
    IN  IF num < 0 THEN -rounded ELSE rounded

\* a + b of two doubles
FloatAdd(a, b) == RoundToFloat(a + b, 1)

\* A displayed coordinate is in 1/2^FracBits of the unit of the scene's
\* landmarks: a / n of a double by a count n <= maxHistorySize has
\* FloatBits significant bits there whenever it is not below 1/8.
AsDisplayed(point) ==
    [x |-> point.x * Pow2(FracBits), y |-> point.y * Pow2(FracBits),
     z |-> point.z * Pow2(FracBits)]
ShownAsIs(hand) ==
    [hand EXCEPT !.landmarks =
        [n \in 1..Len(hand.landmarks) |-> AsDisplayed(hand.landmarks[n])]]

\* sum / count of a double by the count
FloatMean(sum, count) == RoundToFloat(sum * Pow2(FracBits), count)

\* a movement test at twice the threshold
hasSignificantMovement3D_DoubleThreshold(current, previous, threshold25) ==
    \E i \in 1..Len(current) :
        /\ i <= Len(previous)
        /\ LET dx == current[i].x - previous[i].x
               dy == current[i].y - previous[i].y
           IN  dx * dx + dy * dy > (4 * threshold25 * threshold25) \div 625

\* threshold25 is 25 times the threshold, in 1/(PxUnit*LmUnit) pixel;
\* Math.hypot(dx, dy) > threshold is compared on the squares
hasSignificantMovement3D(current, previous, threshold25) ==
    \E i \in 1..Len(current) :
        /\ i <= Len(previous)
        /\ LET dx == current[i].x - previous[i].x
               dy == current[i].y - previous[i].y
           IN  dx * dx + dy * dy > (threshold25 * threshold25) \div 625

\* sumX += point.x over the kept frames, oldest first, from sumX = 0
RECURSIVE SumOfFrames(_, _, _, _, _)
SumOfFrames(frames, f, index, field, sum) ==
    IF f > Len(frames) THEN sum
    ELSE SumOfFrames(frames, f + 1, index, field,
                     IF index <= Len(frames[f])
                     THEN FloatAdd(sum, frames[f][index][field])
                     ELSE sum)

\* a stabilizer that returns the newest frame in place of the mean
AverageOf_NewestOnly(hand, updatedHistory) ==
    [index \in 1..Len(hand.landmarks) |->
        AsDisplayed(updatedHistory[Len(updatedHistory)][index])]

AverageOf(hand, updatedHistory) ==
    [index \in 1..Len(hand.landmarks) |->
        LET count == Cardinality({ f \in 1..Len(updatedHistory) :
                                      index <= Len(updatedHistory[f]) })
        IN  IF count = 0 THEN AsDisplayed(hand.landmarks[index])
            ELSE [x |-> FloatMean(SumOfFrames(updatedHistory, 1, index, "x", 0), count),
                  y |-> FloatMean(SumOfFrames(updatedHistory, 1, index, "y", 0), count),
                  z |-> FloatMean(SumOfFrames(updatedHistory, 1, index, "z", 0), count)]]

HistoryOf(nextHistory, id) ==
    IF id \in DOMAIN nextHistory THEN nextHistory[id] ELSE << >>

\* a stabilizer that drops the newest frame where the code drops the oldest
SmoothHand_DropsNewest(hand, nextHistory, threshold25) ==
    LET history == HistoryOf(nextHistory, hand.id)
        moved == /\ Len(history) > 0
                 /\ hasSignificantMovement3D(hand.landmarks, history[Len(history)],
                                             threshold25)
        kept == IF moved THEN << >> ELSE history
        pushed == Append(kept, hand.landmarks)
        updatedHistory == IF Len(pushed) > maxHistorySize
                          THEN SubSeq(pushed, 1, maxHistorySize) ELSE pushed
    IN  [history |-> [id \in (DOMAIN nextHistory) \cup {hand.id} |->
                         IF id = hand.id THEN updatedHistory ELSE nextHistory[id]],
         hand |-> IF Len(updatedHistory) < 2 THEN ShownAsIs(hand)
                  ELSE [hand EXCEPT !.landmarks = AverageOf(hand, updatedHistory)]]

\* the body of hands.map((hand) => ...), App.tsx:264-310
SmoothHand(hand, nextHistory, threshold25) ==
    LET history == HistoryOf(nextHistory, hand.id)
        moved == /\ Len(history) > 0
                 /\ hasSignificantMovement3D(hand.landmarks, history[Len(history)],
                                             threshold25)
        kept == IF moved THEN << >> ELSE history
        pushed == Append(kept, hand.landmarks)
        updatedHistory == IF Len(pushed) > maxHistorySize THEN Tail(pushed) ELSE pushed
    IN  [history |-> [id \in (DOMAIN nextHistory) \cup {hand.id} |->
                         IF id = hand.id THEN updatedHistory ELSE nextHistory[id]],
         hand |-> IF Len(updatedHistory) < 2 THEN ShownAsIs(hand)
                  ELSE [hand EXCEPT !.landmarks = AverageOf(hand, updatedHistory)]]

RECURSIVE SmoothHands(_, _, _, _)
SmoothHands(hands, k, nextHistory, threshold25) ==
    IF k > Len(hands) THEN [history |-> nextHistory, hands |-> << >>]
    ELSE LET step == SmoothHand(hands[k], nextHistory, threshold25)
             rest == SmoothHands(hands, k + 1, step.history, threshold25)
         IN  [history |-> rest.history, hands |-> <<step.hand>> \o rest.hands]

NoHistory == [id \in {} |-> << >>]

\* a stabilizer that keeps the history of the hands that left the frame
StabilizeHands_KeepsAbsent(sceneArg, smoothing, frameDimensions, preview, historyArg) ==
    IF sceneArg = NoScene \/ Len(sceneArg.hands) = 0
    THEN [history |-> NoHistory, hands |-> << >>]
    ELSE IF ~smoothing
    THEN [history |-> [id \in { sceneArg.hands[k].id : k \in 1..Len(sceneArg.hands) } |->
                          LET k == CHOOSE j \in 1..Len(sceneArg.hands) :
                                      /\ sceneArg.hands[j].id = id
                                      /\ \A later \in (j + 1)..Len(sceneArg.hands) :
                                            sceneArg.hands[later].id # id
                          IN  <<sceneArg.hands[k].landmarks>>],
          hands |-> [k \in 1..Len(sceneArg.hands) |-> ShownAsIs(sceneArg.hands[k])]]
    ELSE LET frameMinSize ==
                 OrElse(MathMin(OrElse(OrElse(frameDimensions.width, preview), 0),
                                OrElse(OrElse(frameDimensions.height, preview), 0)), 1)
             threshold25 == frameMinSize * PxUnit * LmUnit * 2
             smoothed == SmoothHands(sceneArg.hands, 1, historyArg, threshold25)
         IN  [history |-> smoothed.history,
              hands |-> smoothed.hands]

\* the body of the handsForDisplay memo: the hands to draw and the next
\* handHistoryRef.current
StabilizeHands(sceneArg, smoothing, frameDimensions, preview, historyArg) ==
    IF sceneArg = NoScene \/ Len(sceneArg.hands) = 0
    THEN [history |-> NoHistory, hands |-> << >>]
    ELSE IF ~smoothing
    THEN [history |-> [id \in { sceneArg.hands[k].id : k \in 1..Len(sceneArg.hands) } |->
                          LET k == CHOOSE j \in 1..Len(sceneArg.hands) :
                                      /\ sceneArg.hands[j].id = id
                                      /\ \A later \in (j + 1)..Len(sceneArg.hands) :
                                            sceneArg.hands[later].id # id
                          IN  <<sceneArg.hands[k].landmarks>>],
          hands |-> [k \in 1..Len(sceneArg.hands) |-> ShownAsIs(sceneArg.hands[k])]]
    ELSE LET frameMinSize ==
                 OrElse(MathMin(OrElse(OrElse(frameDimensions.width, preview), 0),
                                OrElse(OrElse(frameDimensions.height, preview), 0)), 1)
             threshold25 == frameMinSize * PxUnit * LmUnit * 2
             smoothed == SmoothHands(sceneArg.hands, 1, historyArg, threshold25)
             activeIds == { sceneArg.hands[k].id : k \in 1..Len(sceneArg.hands) }
         IN  [history |-> [id \in (DOMAIN smoothed.history) \cap activeIds |->
                              smoothed.history[id]],
              hands |-> smoothed.hands]

\* the App after its first render, in a window of the given size
AppMounted(windowSize) ==
    /\ sceneInterpretation = NoScene
    /\ sceneRef = 0
    /\ detectedHandsCount = 0
    /\ useSmoothedLandmarks = TRUE
    /\ previewSize = windowSize
    /\ frameDimensionsRef = [width |-> 0, height |-> 0]
    /\ handHistoryRef = NoHistory
    /\ historyBefore = NoHistory
    /\ handsForDisplay = << >>
    /\ memoDeps = <<0, TRUE, windowSize>>
    /\ frameCount = 0
    /\ detectionCount = 0

AppIdle ==
    /\ AppMounted(0)
    /\ detectorState = "loading"
    /\ landmarksState = "loading"

---------------------------------------------------------------------------
(* prepareDetections applied to every input *)

InitPrepare ==
    /\ dPhase = "input"
    /\ detectorOutput \in DetectorOutputs
    /\ overrides \in OverrideSet
    /\ meta \in Metas
    /\ prepared = NoPrepared
    /\ landmarkOutputs = << >>
    /\ options = << >>
    /\ scene = NoScene
    /\ RelIdle
    /\ PoseIdle
    /\ OthersIdle
    /\ AppIdle

Prepare ==
    /\ dPhase = "input"
    /\ prepared' = prepareDetections(detectorOutput, ModelAnchors, meta, overrides)
    /\ dPhase' = "prepared"
    /\ UNCHANGED <<detectorOutput, overrides, meta, landmarkOutputs, options, scene>>
    /\ UNCHANGED relVars
    /\ UNCHANGED poseVars
    /\ UNCHANGED otherVars
    /\ UNCHANGED appVars

NextPrepare == Prepare

SpecPrepare == InitPrepare /\ [][NextPrepare]_vars

---------------------------------------------------------------------------
(* Properties of prepareDetections (SpecPrepare) *)

PreparedParams == mergeDetectionParams(overrides)
Decoded == decodeDetectionsInternal(detectorOutput, ModelAnchors)
Candidates == FilterByScore(Decoded, PreparedParams)
IoUOf(a, b) == intersectionOverUnionLocal(a, b)
IsSelected(box) == \E k \in 1..Len(prepared.boxes) : prepared.boxes[k] = box

\* C1: prepareDetections returns at most maxHands boxes in boxes,
\* boxesOnFrame and roiBoxesOnFrame, for every non-negative integer maxHands
\* (maxHands = 0 included).
C1_AtMostMaxHands ==
    dPhase = "prepared" =>
        /\ Len(prepared.boxes) <= PreparedParams.maxHands
        /\ Len(prepared.boxesOnFrame) <= PreparedParams.maxHands
        /\ Len(prepared.roiBoxesOnFrame) <= PreparedParams.maxHands

\* C3: every two distinct selected boxes have IoU <= iouThreshold; of two
\* candidates that overlap above the threshold (IoU 0.9 against 0.3) only the
\* higher-scoring one is selected, and two candidates with IoU 0 are both
\* selected when maxHands >= 2.
C3_SelectedPairwiseIoU ==
    dPhase = "prepared" =>
        /\ \A i, j \in 1..Len(prepared.boxes) :
              i # j =>
                 ~ExceedsThreshold(IoUOf(prepared.boxes[i], prepared.boxes[j]),
                                   PreparedParams.iouThreshold)
        /\ Len(Candidates) = 2 =>
              LET a == Candidates[1]
                  b == Candidates[2]
                  hi == IF a.score >= b.score THEN a ELSE b
              IN  /\ ( /\ ExceedsThreshold(IoUOf(a, b), PreparedParams.iouThreshold)
                       /\ a.score # b.score )
                        => prepared.boxes = <<hi>>
                  /\ ( /\ IoUOf(a, b)[1] = 0
                       /\ PreparedParams.maxHands >= 2 )
                        => (IsSelected(a) /\ IsSelected(b))

\* C3 witness: the threshold is 0.3, a candidate of score 0.9 and one of
\* score 0.8 have IoU exactly 0.9 and only the first is selected, beside a
\* third candidate of IoU 0 with the first that is selected too.
C3_Witness ==
    /\ dPhase = "prepared"
    /\ PreparedParams.iouThreshold = 300
    /\ Len(prepared.boxes) = 2
    /\ \E i, j, k \in 1..Len(Candidates) :
          LET a == Candidates[i]
              b == Candidates[j]
              c == Candidates[k]
          IN  /\ a.score = 900 /\ b.score = 800
              /\ 10 * IoUOf(a, b)[1] = 9 * IoUOf(a, b)[2]
              /\ IoUOf(a, c)[1] = 0
              /\ IsSelected(a) /\ ~IsSelected(b) /\ IsSelected(c)

\* C4: no box with score below scoreThreshold is selected, the selected boxes
\* are in non-increasing score order, and a box whose score equals the
\* threshold is kept as a candidate (it is selected when no box scores higher).
C4_ScoreFilterAndOrder ==
    dPhase = "prepared" =>
        /\ \A k \in 1..Len(prepared.boxes) :
              prepared.boxes[k].score >= PreparedParams.scoreThreshold
        /\ \A k \in 1..(Len(prepared.boxes) - 1) :
              prepared.boxes[k].score >= prepared.boxes[k + 1].score
        /\ ( /\ \E n \in 1..Len(Decoded) :
                    Decoded[n].score = PreparedParams.scoreThreshold
             /\ \A n \in 1..Len(Decoded) :
                    Decoded[n].score <= PreparedParams.scoreThreshold )
              => /\ Len(prepared.boxes) >= 1
                 /\ prepared.boxes[1].score = PreparedParams.scoreThreshold

\* C4 witness: a box scoring exactly the threshold is selected after a box
\* scoring higher, while a decoded box scoring lower is not selected.
C4_Witness ==
    /\ dPhase = "prepared"
    /\ Len(prepared.boxes) = 2
    /\ prepared.boxes[1].score > prepared.boxes[2].score
    /\ prepared.boxes[2].score = PreparedParams.scoreThreshold
    /\ \E n \in 1..Len(Decoded) : Decoded[n].score < PreparedParams.scoreThreshold

\* C5: among candidates of equal score the one with the lower anchor index
\* is considered first: the selection lists equal scores by ascending anchor
\* index, and its first box is the lowest-indexed candidate of maximal score
\* (so that one wins against an equal-scored overlapping box, or when a
\* single slot is left).
C5_TieBreakByAnchorIndex ==
    dPhase = "prepared" =>
        /\ \A k \in 1..(Len(prepared.boxes) - 1) :
              \/ prepared.boxes[k].score > prepared.boxes[k + 1].score
              \/ /\ prepared.boxes[k].score = prepared.boxes[k + 1].score
                 /\ prepared.boxes[k].id < prepared.boxes[k + 1].id
        /\ Len(Candidates) >= 1 =>
              /\ Len(prepared.boxes) >= 1
              /\ \A n \in 1..Len(Candidates) :
                    \/ Candidates[n].score < prepared.boxes[1].score
                    \/ /\ Candidates[n].score = prepared.boxes[1].score
                       /\ Candidates[n].id >= prepared.boxes[1].id

\* C5 witness: two candidates of equal score overlap above the threshold and
\* the selection holds the lower-indexed one alone.
C5_Witness ==
    /\ dPhase = "prepared"
    /\ Len(Candidates) = 2
    /\ Candidates[1].score = Candidates[2].score
    /\ ExceedsThreshold(IoUOf(Candidates[1], Candidates[2]), PreparedParams.iouThreshold)
    /\ PreparedParams.maxHands >= 2
    /\ prepared.boxes = <<Candidates[1]>>

InUnit(v) == 0 <= v /\ v <= NormUnit

\* C7: every DetectionBox of the decoder has score in [0,1] and cx, cy, w, h
\* and both coordinates of each of its 7 palm keypoints in [0,1].
C7_DecodedInUnitRange ==
    dPhase = "prepared" =>
    \A n \in 1..Len(Decoded) :
        LET box == Decoded[n]
        IN  /\ 0 <= box.score /\ box.score <= Milli
            /\ InUnit(box.cx) /\ InUnit(box.cy) /\ InUnit(box.w) /\ InUnit(box.h)
            /\ Len(box.palmKeypoints) = PALM_KEYPOINT_COUNT
            /\ \A k \in 1..Len(box.palmKeypoints) :
                  InUnit(box.palmKeypoints[k].x) /\ InUnit(box.palmKeypoints[k].y)

---------------------------------------------------------------------------
(* interpretFrame applied to prepared detections (SpecInterpret) *)

\* landmark vectors of 63 values (x, y, z of 21 points) in 1/LmUnit;
\* value v of the vector belongs to point v \div 3
\* inside the ROI: x in {0, 0.5, 1}, y in {0, 0.5, 1}
LmInside ==
    [n \in 1..(3 * LANDMARK_COUNT) |->
        LET i == (n - 1) \div 3
        IN  CASE (n - 1) % 3 = 0 -> i % 3
              [] (n - 1) % 3 = 1 -> (i \div 3) % 3
              [] OTHER -> -(i % 2)]
\* beyond the clamp on both sides: x in {-1, 0, 1, 2}, y in {2, 1, 0, -1}
LmOutside ==
    [n \in 1..(3 * LANDMARK_COUNT) |->
        LET i == (n - 1) \div 3
        IN  CASE (n - 1) % 3 = 0 -> 2 * (i % 4) - 2
              [] (n - 1) % 3 = 1 -> 4 - 2 * (i % 4)
              [] OTHER -> i]

RawRight == [landmarks |-> LmInside, handedness |-> "Right", handednessScore |-> 900]
RawLeft == [landmarks |-> LmOutside, handedness |-> "Left", handednessScore |-> 200]

LandmarkOutputLists ==
    { << >>, <<RawRight>>, <<RawRight, RawLeft>>, <<RawLeft, RawRight, RawRight>>,
      <<RawLeft, RawLeft, RawRight, RawRight>> }

InterpretAnchorOutputs == { <<2197, RowBase>>, <<1386, RowFar>>, <<0, RowOut>> }

InterpretDetectorOutputs ==
    { MakeDetectorOutput(outs, adj, 0) :
        outs \in [1..NumAnchors -> InterpretAnchorOutputs],
        adj \in LengthAdjust }

InterpretOverrides ==
    { << >>,
      [maxHands |-> 0],
      [maxHands |-> 2, scoreThreshold |-> 550],
      [maxHands |-> MaxHandsBound, scoreThreshold |-> 500] }

\* InterpretFrameOptions: none; detectionParams alone; the App's call
\* (precomputed alone, App.tsx:464-467); precomputed with the parameters it
\* was prepared with; precomputed with another maxHands
OptionSet(prep, ovr) ==
    { << >>,
      [detectionParams |-> ovr],
      [precomputed |-> prep],
      [precomputed |-> prep, detectionParams |-> ovr],
      [precomputed |-> prep, detectionParams |-> [maxHands |-> 1]] }

InitInterpret ==
    /\ dPhase = "input"
    /\ detectorOutput \in InterpretDetectorOutputs
    /\ overrides \in InterpretOverrides
    /\ meta \in Metas
    /\ prepared = NoPrepared
    /\ landmarkOutputs = << >>
    /\ options = << >>
    /\ scene = NoScene
    /\ RelIdle
    /\ PoseIdle
    /\ OthersIdle
    /\ AppIdle

\* a call of interpretFrame with landmark outputs drawn from lists
InterpretFrameCall(lists) ==
    /\ \E lms \in lists, opts \in OptionSet(prepared, overrides) :
          /\ landmarkOutputs' = lms
          /\ options' = opts
          /\ scene' = interpretFrame(detectorOutput, lms, ModelAnchors, meta, opts)
    /\ dPhase' = "interpreted"

Interpret ==
    /\ dPhase = "prepared"
    /\ InterpretFrameCall(LandmarkOutputLists)
    /\ UNCHANGED <<detectorOutput, overrides, meta, prepared>>
    /\ UNCHANGED relVars
    /\ UNCHANGED poseVars
    /\ UNCHANGED otherVars
    /\ UNCHANGED appVars

NextInterpret == Prepare \/ Interpret

SpecInterpret == InitInterpret /\ [][NextInterpret]_vars

InterpretParams == mergeDetectionParams(FieldOr(options, "detectionParams", << >>))

\* C2: a SceneInterpretation returned by interpretFrame holds at most
\* maxHands HandState values, with or without a precomputed detection set.
C2_HandsAtMostMaxHands ==
    dPhase = "interpreted" => Len(scene.hands) <= InterpretParams.maxHands

\* the score threshold the detections of the scene were prepared with
ThresholdInForce ==
    IF Has(options, "precomputed") THEN PreparedParams.scoreThreshold
    ELSE InterpretParams.scoreThreshold

NoBoxReaches(threshold) == \A n \in 1..Len(Decoded) : Decoded[n].score < threshold

EmptyScene ==
    /\ scene.hands = << >>
    /\ scene.interHandRelations = << >>

\* C6 as stated: with no decoded box of score >= scoreThreshold the scene has
\* no hand, no relation and numDetectionsBeforeNMS = the total anchor count.
C6_EmptySceneCountsAllAnchors ==
    (dPhase = "interpreted" /\ NoBoxReaches(InterpretParams.scoreThreshold)) =>
        /\ EmptyScene
        /\ scene.rawMeta.numDetectionsBeforeNMS = Len(ModelAnchors)

\* C6 amended: with no decoded box of score >= the scoreThreshold the
\* detections were prepared with, the scene has no hand and no relation,
\* whatever the landmark outputs, and numDetectionsBeforeNMS is the number of
\* anchors decoded, min(floor(rawBoxes.length / 18), anchors.length): the
\* total anchor count when rawBoxes holds 18 values for every anchor.
C6_EmptySceneCountsDecoded ==
    (dPhase = "interpreted" /\ NoBoxReaches(ThresholdInForce)) =>
        /\ EmptyScene
        /\ scene.rawMeta.numDetectionsBeforeNMS =
              MathMin(Len(detectorOutput.rawBoxes) \div DETECTION_VALUES_PER_ANCHOR,
                      Len(ModelAnchors))
        /\ Len(detectorOutput.rawBoxes) >= DETECTION_VALUES_PER_ANCHOR * Len(ModelAnchors)
              => scene.rawMeta.numDetectionsBeforeNMS = Len(ModelAnchors)

\* C6 witness: landmark outputs are supplied for a frame without a box at the
\* threshold, and the scene is empty with every anchor counted.
C6_Witness ==
    /\ dPhase = "interpreted"
    /\ NoBoxReaches(ThresholdInForce)
    /\ Len(landmarkOutputs) >= 2
    /\ EmptyScene
    /\ scene.rawMeta.numDetectionsBeforeNMS = NumAnchors

---------------------------------------------------------------------------
(* inferInterHandRelations applied to lists of hands (SpecRelations) *)

MaxRelHands == 3

\* the fields of a HandState that inferInterHandRelations reads; centers and
\* sizes are in pixels
RelHand(k, handedness, x, y, w, h) ==
    [id |-> <<0, k>>, handedness |-> handedness,
     spatial |-> [center |-> [x |-> x, y |-> y], size |-> [w |-> w, h |-> h]]]

\* the first hand of a list, and the hands after the second one
BaseHandShapes ==
    { <<"Right", 0, 0, 2, 2>>, <<"Right", 0, 0, 3, 8>>, <<"Left", 0, 0, 8, 2>>,
      <<"Left", 1, 6, 2, 2>> }

\* the second hand of a list
PairHandShapes ==
    { <<hd, x, y, w, w + 1>> :
        hd \in {"Left", "Right"},
        x \in {0, 1, 2, 3, 4, 6, 8, 10},
        y \in {0, 1, 2, 3, 6, 8, 10},
        w \in {0, 2} }

HandShapesAt(k) == IF k = 2 THEN PairHandShapes ELSE BaseHandShapes

InitRelations ==
    /\ DetIdle
    /\ AppIdle
    /\ PoseIdle
    /\ OthersIdle
    /\ relHands = << >>
    /\ relations = << >>

AddHand ==
    /\ Len(relHands) < MaxRelHands
    /\ \E sh \in HandShapesAt(Len(relHands) + 1) :
          LET hand == RelHand(Len(relHands), sh[1], sh[2], sh[3], sh[4], sh[5])
          IN  /\ relHands' = Append(relHands, hand)
              /\ relations' = inferInterHandRelations(relHands')
    /\ UNCHANGED detVars
    /\ UNCHANGED appVars
    /\ UNCHANGED poseVars
    /\ UNCHANGED otherVars

\* the same hands given with two of them exchanged
SwapHands ==
    /\ \A k \in 1..Len(relHands) : relHands[k].id = <<0, k - 1>>
    /\ \E i, j \in 1..Len(relHands) :
          /\ i < j
          /\ relHands' = [relHands EXCEPT ![i] = relHands[j], ![j] = relHands[i]]
          /\ relations' = inferInterHandRelations(relHands')
    /\ UNCHANGED detVars
    /\ UNCHANGED appVars
    /\ UNCHANGED poseVars
    /\ UNCHANGED otherVars

NextRelations == AddHand \/ SwapHands

SpecRelations == InitRelations /\ [][NextRelations]_vars

\* the quantities of a pair as the claims word them, doubled or squared to
\* stay in the integers: avgSize = SizeSum / 2, distance^2 = DistSq
SizeSum(a, b) == a.spatial.size.w + b.spatial.size.w
DxOf(a, b) == Abs(a.spatial.center.x - b.spatial.center.x)
DyOf(a, b) == Abs(a.spatial.center.y - b.spatial.center.y)
DistSq(a, b) == DxOf(a, b) * DxOf(a, b) + DyOf(a, b) * DyOf(a, b)

RelationsOfPair(i, j) ==
    { n \in 1..Len(relations) :
        relations[n].handIdA = relHands[i].id /\ relations[n].handIdB = relHands[j].id }

\* distance = 5 * avgSize
FiveSizesApart(a, b) == 4 * DistSq(a, b) = 25 * SizeSum(a, b) * SizeSum(a, b)

\* C9 as stated: two hands of the same handedness whose centers are 5 times
\* the average box size apart, in any direction, are reported Unknown with
\* confidence 0.
C9_FarSameHandUnknown ==
    \A i, j \in 1..Len(relHands) :
        ( /\ i < j
          /\ relHands[i].handedness = relHands[j].handedness
          /\ FiveSizesApart(relHands[i], relHands[j]) )
        => \A n \in RelationsOfPair(i, j) :
              relations[n].type = "Unknown" /\ relations[n].confidence = 0

\* C9 amended: two hands of the same handedness whose centers are 5 times
\* the average box size apart, with a horizontal offset of at least half the
\* average box size, are reported Unknown with confidence 0; with a smaller
\* horizontal offset they are reported Crossing with confidence 0.4.
C9_FarSameHandUnknownUnlessAligned ==
    \A i, j \in 1..Len(relHands) :
        ( /\ i < j
          /\ relHands[i].handedness = relHands[j].handedness
          /\ FiveSizesApart(relHands[i], relHands[j]) )
        => /\ RelationsOfPair(i, j) # {}
           /\ \A n \in RelationsOfPair(i, j) :
                 IF 4 * DxOf(relHands[i], relHands[j]) >= SizeSum(relHands[i], relHands[j])
                 THEN relations[n].type = "Unknown" /\ relations[n].confidence = 0
                 ELSE relations[n].type = "Crossing" /\ relations[n].confidence = 400

\* C9 witness: two right hands of average size 2 are 10 apart on a diagonal
\* (6, 8) and the relation is Unknown with confidence 0.
C9_Witness ==
    /\ Len(relHands) = 2
    /\ relHands[1].handedness = relHands[2].handedness
    /\ SizeSum(relHands[1], relHands[2]) = 4
    /\ DxOf(relHands[1], relHands[2]) = 6 /\ DyOf(relHands[1], relHands[2]) = 8
    /\ Len(relations) = 1
    /\ relations[1].type = "Unknown" /\ relations[1].confidence = 0

\* the type the priority order gives a pair
ExpectedType(a, b) ==
    IF /\ a.handedness # b.handedness
       /\ 10 * DyOf(a, b) < 2 * SizeSum(a, b)
       /\ 100 * DistSq(a, b) < 64 * SizeSum(a, b) * SizeSum(a, b)
    THEN "HandshakeCandidate"
    ELSE IF 100 * DistSq(a, b) < 36 * SizeSum(a, b) * SizeSum(a, b)
    THEN "HandsClose"
    ELSE IF 4 * DxOf(a, b) < SizeSum(a, b)
    THEN "Crossing"
    ELSE "Unknown"

ConfidenceOfType(type) ==
    CASE type = "HandshakeCandidate" -> 800
      [] type = "HandsClose" -> 600
      [] type = "Crossing" -> 400
      [] type = "Unknown" -> 0

\* C10: each pair is classified in strict priority order: HandshakeCandidate
\* (0.8) when handedness differs and vertical offset < 0.4*avgSize and
\* distance < 1.6*avgSize; otherwise HandsClose (0.6) when distance <
\* 1.2*avgSize; otherwise Crossing (0.4) when horizontal offset <
\* 0.5*avgSize; otherwise Unknown (0); the confidence is the one fixed for
\* the type; avgSize is the mean of the two hands' box widths.
C10_PriorityClassification ==
    \A i, j \in 1..Len(relHands) :
        i < j =>
           /\ RelationsOfPair(i, j) # {}
           /\ \A n \in RelationsOfPair(i, j) :
                 /\ relations[n].type = ExpectedType(relHands[i], relHands[j])
                 /\ relations[n].confidence = ConfidenceOfType(relations[n].type)

\* C10 witness: two hands of different handedness at the same height and
\* closer than 1.2*avgSize, which both the HandshakeCandidate and the
\* HandsClose test accept, are reported HandshakeCandidate with 0.8.
C10_Witness ==
    /\ Len(relHands) = 2
    /\ relHands[1].handedness # relHands[2].handedness
    /\ DyOf(relHands[1], relHands[2]) = 0
    /\ 100 * DistSq(relHands[1], relHands[2])
          < 36 * SizeSum(relHands[1], relHands[2]) * SizeSum(relHands[1], relHands[2])
    /\ Len(relations) = 1
    /\ relations[1].type = "HandshakeCandidate" /\ relations[1].confidence = 800

\* C11: for n hands inferInterHandRelations returns exactly one relation per
\* unordered pair of distinct hands, n*(n-1)/2 relations in all, none pairing
\* a hand with itself, and the empty list when n < 2.
C11_OneRelationPerPair ==
    LET n == Len(relHands)
    IN  /\ 2 * Len(relations) = n * (n - 1)
        /\ n < 2 => relations = << >>
        /\ \A r \in 1..Len(relations) : relations[r].handIdA # relations[r].handIdB
        /\ \A i, j \in 1..n :
              i < j => Cardinality(RelationsOfPair(i, j) \cup RelationsOfPair(j, i)) = 1

\* C11 witness: three hands give three relations, one for each pair.
C11_Witness ==
    /\ Len(relHands) = 3
    /\ Len(relations) = 3
    /\ RelationsOfPair(1, 2) = {1} /\ RelationsOfPair(1, 3) = {2}
    /\ RelationsOfPair(2, 3) = {3}

\* the relation of a list that pairs the hands of ids idA and idB, in either
\* order
SamePairRelated(rel, idA, idB) ==
    \/ rel.handIdA = idA /\ rel.handIdB = idB
    \/ rel.handIdA = idB /\ rel.handIdB = idA

\* C12: exchanging two hands of the input list leaves the type, the distance
\* and the confidence of every pair as they were; only the pair's handIdA and
\* handIdB may be exchanged.
C12_OrderIndependent ==
    [][ (Len(relHands') = Len(relHands) /\ relHands' # relHands) =>
          \A r \in 1..Len(relations) :
              \E q \in 1..Len(relations') :
                  /\ SamePairRelated(relations'[q], relations[r].handIdA,
                                     relations[r].handIdB)
                  /\ relations'[q].type = relations[r].type
                  /\ relations'[q].distanceSq = relations[r].distanceSq
                  /\ relations'[q].confidence = relations[r].confidence ]_vars

\* C12 witness: the two hands of a pair were exchanged, the second one now
\* first, and the pair is reported Crossing.
C12_Witness ==
    /\ Len(relHands) = 2
    /\ relHands[1].id = <<0, 1>> /\ relHands[2].id = <<0, 0>>
    /\ relHands[1].spatial.center.x > relHands[2].spatial.center.x
    /\ relations[1].handIdA = <<0, 1>>
    /\ relations[1].type = "Crossing"

---------------------------------------------------------------------------
(* One frame through the App: frame processor, onSceneUpdated and the       *)
(* handsForDisplay memo (SpecDisplay)                                        *)

MAX_HANDS == 2
DETECTION_SCORE_THRESHOLD == 550

AppDetectionParams ==
    [maxHands |-> MAX_HANDS, scoreThreshold |-> DETECTION_SCORE_THRESHOLD]

\* what parseLandmarkResult returns for one hand patch
LandmarkResults == { RawRight, RawLeft }

DisplayAnchorOutputs == { <<2197, RowBase>>, <<1386, RowFar>> }

DisplayDetectorOutputs ==
    { MakeDetectorOutput(outs, 0, 0) : outs \in [1..NumAnchors -> DisplayAnchorOutputs] }

PreviewSizes == { 0, 5 }

InitDisplay ==
    /\ dPhase = "input"
    /\ detectorOutput \in DisplayDetectorOutputs
    /\ overrides = AppDetectionParams
    /\ meta \in Metas
    /\ prepared = NoPrepared
    /\ landmarkOutputs = << >>
    /\ options = << >>
    /\ scene = NoScene
    /\ RelIdle
    /\ PoseIdle
    /\ OthersIdle
    /\ \E size \in PreviewSizes : AppMounted(size)
    /\ detectorState = "loaded"
    /\ landmarksState = "loaded"

\* detectorModel, detectorInputSize, landmarkModel and landmarksInputSize are
\* all non-null, App.tsx:381-388; each pair is non-null exactly when its
\* model's state is 'loaded', App.tsx:151-183
ModelsReady_DetectorOnly == detectorState = "loaded"
ModelsReady == detectorState = "loaded" /\ landmarksState = "loaded"

\* the frame processor on the camera frame at hand, with both models loaded,
\* App.tsx:421-470: detection, one landmark run per ROI up to MAX_HANDS, and
\* interpretFrame on the precomputed detections; onSceneUpdated and
\* onFrameProcessed are then on their way to the JS thread
handDetectionFrameProcessor(parsedResults) ==
    /\ ModelsReady
    /\ LET prep == prepareDetections(detectorOutput, ModelAnchors, meta,
                                     AppDetectionParams)
           runs == MathMin(Len(prep.roiBoxesOnFrame), MAX_HANDS)
       IN  \E landmarkResults \in [1..runs -> parsedResults] :
              /\ prepared' = prep
              /\ landmarkOutputs' = landmarkResults
              /\ options' = [precomputed |-> prep]
              /\ scene' = interpretFrame(detectorOutput, landmarkResults,
                                         ModelAnchors, meta, [precomputed |-> prep])
    /\ dPhase' = "interpreted"
    /\ UNCHANGED <<detectorOutput, overrides, meta>>
    /\ UNCHANGED relVars
    /\ UNCHANGED poseVars
    /\ UNCHANGED otherVars
    /\ UNCHANGED appVars

\* the frame processor with any landmark result for each hand patch
ProcessFrame ==
    /\ dPhase = "input"
    /\ handDetectionFrameProcessor(LandmarkResults)

\* setSceneInterpretation(interpretation) stores an object that is not the
\* one of the last render nor the one stored now
FreshRef == CHOOSE r \in 1..3 : r # sceneRef /\ r # memoDeps[1]

\* onSceneUpdated, App.tsx:195-207
onSceneUpdated(interpretation) ==
    /\ frameDimensionsRef' = [width |-> interpretation.rawMeta.frameWidth,
                              height |-> interpretation.rawMeta.frameHeight]
    /\ handHistoryRef' = IF Len(interpretation.hands) = 0 THEN NoHistory
                         ELSE handHistoryRef
    /\ detectedHandsCount' = Len(interpretation.hands)
    /\ sceneInterpretation' = interpretation
    /\ sceneRef' = FreshRef
    /\ UNCHANGED <<uiVars, memoVars, loadVars>>

\* the JS thread runs onSceneUpdated on the scene the frame processor built
OnSceneUpdated ==
    /\ dPhase = "interpreted"
    /\ onSceneUpdated(scene)
    /\ dPhase' = "delivered"
    /\ UNCHANGED <<detectorOutput, overrides, meta, prepared, landmarkOutputs,
                   options, scene>>
    /\ UNCHANGED countVars
    /\ UNCHANGED relVars
    /\ UNCHANGED poseVars
    /\ UNCHANGED otherVars

\* a render after a dependency of the handsForDisplay memo changed,
\* App.tsx:235-322
RenderHandsForDisplay ==
    /\ memoDeps # <<sceneRef, useSmoothedLandmarks, previewSize>>
    /\ LET result == StabilizeHands(sceneInterpretation, useSmoothedLandmarks,
                                    frameDimensionsRef, previewSize, handHistoryRef)
       IN  /\ handHistoryRef' = result.history
           /\ handsForDisplay' = result.hands
    /\ historyBefore' = handHistoryRef
    /\ memoDeps' = <<sceneRef, useSmoothedLandmarks, previewSize>>
    /\ UNCHANGED <<uiVars, sceneVars, loadVars, countVars>>
    /\ UNCHANGED detVars
    /\ UNCHANGED relVars
    /\ UNCHANGED poseVars
    /\ UNCHANGED otherVars

\* the smoothing button, App.tsx:657-664: the handler negates the value of
\* the render it was created in, memoDeps[2]
ToggleSmoothedLandmarks ==
    /\ useSmoothedLandmarks' = ~memoDeps[2]
    /\ UNCHANGED <<previewSize, sceneVars, memoVars, handHistoryRef, loadVars,
                   countVars>>
    /\ UNCHANGED detVars
    /\ UNCHANGED relVars
    /\ UNCHANGED poseVars
    /\ UNCHANGED otherVars

\* the window changes size, App.tsx:73-77
WindowResized ==
    /\ \E size \in PreviewSizes \ {previewSize} : previewSize' = size
    /\ UNCHANGED <<useSmoothedLandmarks, sceneVars, memoVars, handHistoryRef,
                   loadVars, countVars>>
    /\ UNCHANGED detVars
    /\ UNCHANGED relVars
    /\ UNCHANGED poseVars
    /\ UNCHANGED otherVars

NextDisplay ==
    \/ ProcessFrame
    \/ OnSceneUpdated
    \/ RenderHandsForDisplay
    \/ ToggleSmoothedLandmarks
    \/ WindowResized

SpecDisplay == InitDisplay /\ [][NextDisplay]_vars

\* the detections interpretFrame built the scene from
DetectionsInForce ==
    IF Has(options, "precomputed") THEN options.precomputed
    ELSE prepareDetections(detectorOutput, ModelAnchors, meta, InterpretParams)

ClampedLandmarkValue(v) ==
    IF 2 * v < -LmUnit THEN -(LmUnit \div 2)
    ELSE IF 2 * v > 3 * LmUnit THEN (3 * LmUnit) \div 2
    ELSE v

\* landmark i (0-based) of hand k is built from values 3i, 3i+1, 3i+2 of the
\* k-th landmark vector and the k-th ROI
LandmarkIsMappingOf(point, i, vector, roi) ==
    /\ point.x = roi.xMin * LmUnit + ClampedLandmarkValue(vector[3 * i + 1]) * roi.wPx
    /\ point.y = roi.yMin * LmUnit + ClampedLandmarkValue(vector[3 * i + 2]) * roi.hPx
    /\ point.z = vector[3 * i + 3]

\* C8: every HandState built by interpretFrame has exactly 21 landmarks,
\* landmark i being the mapping of values 3i..3i+2 of the hand's landmark
\* vector (wrist first, index order kept), and every hand the stabilizer
\* returns for display has exactly 21 landmarks too.
C8_TwentyOneLandmarksInOrder ==
    /\ dPhase \in {"interpreted", "delivered"} =>
          \A k \in 1..Len(scene.hands) :
              /\ Len(scene.hands[k].landmarks) = 21
              /\ \A i \in 0..20 :
                    LandmarkIsMappingOf(scene.hands[k].landmarks[i + 1], i,
                                        landmarkOutputs[k].landmarks,
                                        DetectionsInForce.roiBoxesOnFrame[k])
    /\ \A k \in 1..Len(handsForDisplay) :
          /\ Len(handsForDisplay[k].landmarks) = 21
          /\ handsForDisplay[k].id = sceneInterpretation.hands[k].id

\* C8 witness: a scene of two hands, one with landmarks beyond the clamp, is
\* drawn from the mean of two kept frames.
C8_Witness ==
    /\ dPhase = "delivered"
    /\ Len(scene.hands) = 2
    /\ \E k \in 1..2, i \in 1..63 :
          ClampedLandmarkValue(landmarkOutputs[k].landmarks[i])
              # landmarkOutputs[k].landmarks[i]
    /\ Len(handsForDisplay) = 2
    /\ useSmoothedLandmarks
    /\ memoDeps = <<sceneRef, useSmoothedLandmarks, previewSize>>
    /\ \A k \in 1..2 : Len(handHistoryRef[scene.hands[k].id]) = 2

\* ---------------------------------------------------------------------
\* The stabilizer over a sequence of scenes whose hand ids recur.
\* ---------------------------------------------------------------------

\* 21 landmarks in the scene's unit, landmark n at (px + n - 1, py + 2(n - 1),
\* pz - (n - 1))
PoseAt(px, py, pz) ==
    [n \in 1..LANDMARK_COUNT |->
        [x |-> px + (n - 1), y |-> py + 2 * (n - 1), z |-> pz - (n - 1)]]

\* a hand at rest, the same hand a little to the right (less than the
\* movement threshold of a 4 x 3 frame, 184.32 units), and the hand just
\* beyond the threshold
StillPose == PoseAt(2711, 1000, -50)
NudgedPose == PoseAt(2811, 1000, -50)
JumpedPose == PoseAt(2896, 1000, -50)
StabilizerPoses == {StillPose, NudgedPose, JumpedPose}

\* the fields of a HandState the stabilizer reads; it carries the others over
StabilizerHand(frameId, slot, points) ==
    [id |-> <<frameId, slot>>, handedness |-> "Right", landmarks |-> points]

StabilizerScene(m, hands) ==
    [frameId |-> m.frameId, hands |-> hands, interHandRelations |-> << >>,
     rawMeta |-> [numDetectionsBeforeNMS |-> Len(hands),
                  frameWidth |-> m.frameWidth, frameHeight |-> m.frameHeight]]

\* scenes of no hand, of one hand in any pose, and of two hands, the second
\* at rest
StabilizerScenes ==
    { StabilizerScene(m, << >>) : m \in Metas }
    \cup { StabilizerScene(m, <<StabilizerHand(m.frameId, 0, points)>>) :
              m \in Metas, points \in StabilizerPoses }
    \cup { StabilizerScene(m, <<StabilizerHand(m.frameId, 0, points),
                                StabilizerHand(m.frameId, 1, StillPose)>>) :
              m \in Metas, points \in {StillPose} }

InitStabilizer ==
    /\ DetIdle
    /\ RelIdle
    /\ PoseIdle
    /\ OthersIdle
    /\ AppMounted(5)
    /\ detectorState = "loaded"
    /\ landmarksState = "loaded"

\* the JS thread runs onSceneUpdated on the scene of some frame
SceneDelivered ==
    /\ \E interpretation \in StabilizerScenes : onSceneUpdated(interpretation)
    /\ UNCHANGED countVars
    /\ UNCHANGED detVars
    /\ UNCHANGED relVars
    /\ UNCHANGED poseVars
    /\ UNCHANGED otherVars

NextStabilizer ==
    \/ SceneDelivered
    \/ RenderHandsForDisplay
    \/ ToggleSmoothedLandmarks

SpecStabilizer == InitStabilizer /\ [][NextStabilizer]_vars

\* the memo's value is the one of the current scene and settings
MemoFresh == memoDeps = <<sceneRef, useSmoothedLandmarks, previewSize>>

\* the history the last memo run found for a hand
HistoryFound(hand) ==
    IF hand.id \in DOMAIN historyBefore THEN historyBefore[hand.id] ELSE << >>

\* some landmark of the hand lies more than 8% of the smaller frame
\* dimension, in the image plane, from the newest frame the last memo run
\* found for it
DisplacedBeyondThreshold(hand) ==
    LET found == HistoryFound(hand)
        smaller == MathMin(frameDimensionsRef.width, frameDimensionsRef.height)
        limit25 == 2 * smaller * PxUnit * LmUnit
    IN  /\ Len(found) > 0
        /\ \E n \in 1..LANDMARK_COUNT :
              LET dx == hand.landmarks[n].x - found[Len(found)][n].x
                  dy == hand.landmarks[n].y - found[Len(found)][n].y
              IN  dx * dx + dy * dy > (limit25 * limit25) \div 625

\* C13: the history of every identity holds at most 3 frames; once the
\* stabilizer has run on the current scene every hand of the scene has at
\* least one; and a run that finds 3 frames for a hand that did not move
\* keeps the two newest of them followed by the current frame.
C13_HistoryBoundedOldestEvicted ==
    /\ \A id \in DOMAIN handHistoryRef :
          Len(handHistoryRef[id]) <= maxHistorySize
    /\ MemoFresh =>
          \A k \in 1..Len(sceneInterpretation.hands) :
              LET hand == sceneInterpretation.hands[k]
                  found == HistoryFound(hand)
              IN  /\ hand.id \in DOMAIN handHistoryRef
                  /\ Len(handHistoryRef[hand.id]) >= 1
                  /\ (/\ useSmoothedLandmarks
                      /\ Len(found) = maxHistorySize
                      /\ ~DisplacedBeyondThreshold(hand))
                     => handHistoryRef[hand.id]
                           = <<found[2], found[3], hand.landmarks>>

\* C13 witness: the stabilizer found three frames for a hand, the oldest
\* unlike the others, and holds three again, without the oldest.
C13_Witness ==
    /\ MemoFresh
    /\ useSmoothedLandmarks
    /\ \E k \in 1..Len(sceneInterpretation.hands) :
          LET hand == sceneInterpretation.hands[k]
              found == HistoryFound(hand)
          IN  /\ Len(found) = maxHistorySize
              /\ found[1] # found[2]
              /\ found[1] # hand.landmarks
              /\ Len(handHistoryRef[hand.id]) = maxHistorySize
              /\ handHistoryRef[hand.id][maxHistorySize] = hand.landmarks

\* C14: once the stabilizer has run on the current scene, a hand with some
\* landmark more than 8% of the smaller frame dimension away from the newest
\* frame found for its identity has a history of the current frame alone and
\* is drawn with its raw landmarks.
C14_JumpResetsHistory ==
    MemoFresh =>
        \A k \in 1..Len(sceneInterpretation.hands) :
            LET hand == sceneInterpretation.hands[k]
            IN  DisplacedBeyondThreshold(hand) =>
                   /\ handHistoryRef[hand.id] = <<hand.landmarks>>
                   /\ handsForDisplay[k] = ShownAsIs(hand)

\* C14 witness: with smoothing on, a hand jumped away from a history of two
\* frames or more, which the stabilizer dropped.
C14_Witness ==
    /\ MemoFresh
    /\ useSmoothedLandmarks
    /\ \E k \in 1..Len(sceneInterpretation.hands) :
          LET hand == sceneInterpretation.hands[k]
          IN  /\ DisplacedBeyondThreshold(hand)
              /\ Len(HistoryFound(hand)) >= 2
              /\ handHistoryRef[hand.id] = <<hand.landmarks>>

RECURSIVE SumOver(_, _, _, _)
\* the exact sum of coordinate field of landmark n over the frames
SumOver(frames, n, field, magnitudes) ==
    IF Len(frames) = 0 THEN 0
    ELSE (IF magnitudes THEN Abs(frames[1][n][field]) ELSE frames[1][n][field])
         + SumOver(Tail(frames), n, field, magnitudes)

\* shown is the mean of the coordinate over the frames up to the rounding of
\* the additions and of the division: count * shown is within 4u times the
\* sum of the magnitudes of the exact sum, u = 2^-FloatBits the unit roundoff
MeanUpToRounding(shown, frames, n, field) ==
    Abs(Len(frames) * shown - SumOver(frames, n, field, FALSE) * Pow2(FracBits))
        <= SumOver(frames, n, field, TRUE) * Pow2(FracBits - FloatBits + 2)

Coordinates == {"x", "y", "z"}

\* C15 as stated: the hand drawn is the mean of the frames held for it when
\* two or more are held and the raw hand otherwise, and three identical
\* frames held give exactly the raw hand.
C15_IdenticalFramesGiveRaw ==
    (MemoFresh /\ useSmoothedLandmarks) =>
        \A k \in 1..Len(sceneInterpretation.hands) :
            LET hand == sceneInterpretation.hands[k]
                held == handHistoryRef[hand.id]
            IN  /\ Len(held) < 2 => handsForDisplay[k] = ShownAsIs(hand)
                /\ Len(held) >= 2 =>
                      \A n \in 1..LANDMARK_COUNT, field \in Coordinates :
                          MeanUpToRounding(handsForDisplay[k].landmarks[n][field],
                                           held, n, field)
                /\ (Len(held) = maxHistorySize /\ \A f \in 1..Len(held) :
                                                     held[f] = hand.landmarks)
                      => handsForDisplay[k] = ShownAsIs(hand)

\* C15, amended: the hand drawn is the mean of the frames held for it,
\* computed in floating point (sum from 0, oldest frame first, then one
\* division), when two or more are held and the raw hand otherwise; two
\* identical frames held give exactly the raw hand, three give it up to
\* rounding.
C15_FloatingMeanOfHeldFrames ==
    (MemoFresh /\ useSmoothedLandmarks) =>
        \A k \in 1..Len(sceneInterpretation.hands) :
            LET hand == sceneInterpretation.hands[k]
                held == handHistoryRef[hand.id]
            IN  /\ Len(held) < 2 => handsForDisplay[k] = ShownAsIs(hand)
                /\ Len(held) >= 2 =>
                      \A n \in 1..LANDMARK_COUNT, field \in Coordinates :
                          MeanUpToRounding(handsForDisplay[k].landmarks[n][field],
                                           held, n, field)
                /\ (Len(held) = 2 /\ held[1] = held[2])
                      => handsForDisplay[k] = ShownAsIs(hand)

\* C15 witness: three identical frames are held for a hand, which is drawn
\* with a coordinate that is not the raw one.
C15_Witness ==
    /\ MemoFresh
    /\ useSmoothedLandmarks
    /\ \E k \in 1..Len(sceneInterpretation.hands) :
          LET hand == sceneInterpretation.hands[k]
              held == handHistoryRef[hand.id]
          IN  /\ Len(held) = maxHistorySize
              /\ \A f \in 1..Len(held) : held[f] = hand.landmarks
              /\ handsForDisplay[k] # ShownAsIs(hand)

\* the ids of the hands of the scene the App holds
CurrentIds ==
    { sceneInterpretation.hands[k].id : k \in 1..Len(sceneInterpretation.hands) }

\* C16: once the stabilizer has run on the current scene, the identities
\* with a history are exactly the ids of the scene's hands; and while the
\* App holds no scene or a scene of no hand there is no history at all.
C16_HistoryOfCurrentIdsOnly ==
    /\ MemoFresh => DOMAIN handHistoryRef = CurrentIds
    /\ (sceneInterpretation = NoScene \/ Len(sceneInterpretation.hands) = 0)
          => handHistoryRef = NoHistory

\* C16 witness: with smoothing on, the stabilizer found a history for a hand
\* that is not in the current scene of one hand, and keeps none for it.
C16_Witness ==
    /\ MemoFresh
    /\ useSmoothedLandmarks
    /\ Len(sceneInterpretation.hands) = 1
    /\ \E id \in DOMAIN historyBefore :
          /\ id \notin CurrentIds
          /\ id \notin DOMAIN handHistoryRef
    /\ DOMAIN handHistoryRef = CurrentIds

\* ---------------------------------------------------------------------
\* The App over successive camera frames: model loading, the frame
\* processor, the callbacks on the JS thread and the renders.
\* ---------------------------------------------------------------------

\* camera frames taken in a run
MaxFrames == 2

\* what the detector puts out for a frame: one hand, or two
CameraDetectorOutputs ==
    { MakeDetectorOutput([a \in 1..NumAnchors |-> <<2197, RowBase>>], 0, 0),
      MakeDetectorOutput([a \in 1..NumAnchors |->
                             IF a = 1 THEN <<2197, RowBase>> ELSE <<1386, RowFar>>],
                         0, 0) }

\* what parseLandmarkResult returns for a hand patch of a camera frame
\* RawLeft with a depth of 2731/2 for the wrist: the network's outputs are
\* floats of any significand, and this one does not survive x + x + x over 3
RawDeep == [RawLeft EXCEPT !.landmarks[3] = 2731]
CameraLandmarkResults == { RawDeep }

InitApp ==
    /\ dPhase = "waiting"
    /\ detectorOutput = [rawBoxes |-> << >>, rawScores |-> << >>]
    /\ overrides = AppDetectionParams
    /\ meta = [frameWidth |-> 4, frameHeight |-> 3, frameId |-> 0]
    /\ prepared = NoPrepared
    /\ landmarkOutputs = << >>
    /\ options = << >>
    /\ scene = NoScene
    /\ RelIdle
    /\ PoseIdle
    /\ OthersIdle
    /\ \E size \in PreviewSizes : AppMounted(size)
    /\ detectorState = "loading"
    /\ landmarksState = "loading"

\* useTensorflowModel settles, App.tsx:148-158
DetectorSettles ==
    /\ detectorState = "loading"
    /\ detectorState' \in {"loaded", "error"}
    /\ UNCHANGED <<uiVars, sceneVars, memoVars, handHistoryRef, landmarksState,
                   countVars>>
    /\ UNCHANGED detVars
    /\ UNCHANGED relVars
    /\ UNCHANGED poseVars
    /\ UNCHANGED otherVars

LandmarksSettles ==
    /\ landmarksState = "loading"
    /\ landmarksState' \in {"loaded", "error"}
    /\ UNCHANGED <<uiVars, sceneVars, memoVars, handHistoryRef, detectorState,
                   countVars>>
    /\ UNCHANGED detVars
    /\ UNCHANGED relVars
    /\ UNCHANGED poseVars
    /\ UNCHANGED otherVars

\* the camera hands a frame to the frame processor; frame.timestamp grows
\* from frame to frame, App.tsx:377-409
CameraFrame ==
    /\ dPhase = "waiting"
    /\ frameCount < MaxFrames
    /\ frameCount' = frameCount + 1
    /\ detectorOutput' \in CameraDetectorOutputs
    /\ meta' = [frameWidth |-> 4, frameHeight |-> 3, frameId |-> frameCount + 1]
    /\ dPhase' = "input"
    /\ UNCHANGED <<overrides, prepared, landmarkOutputs, options, scene>>
    /\ UNCHANGED <<uiVars, sceneVars, memoVars, handHistoryRef, loadVars,
                   detectionCount>>
    /\ UNCHANGED relVars
    /\ UNCHANGED poseVars
    /\ UNCHANGED otherVars

\* the frame processor returns at once, App.tsx:381-388
FrameSkipped ==
    /\ dPhase = "input"
    /\ ~ModelsReady
    /\ dPhase' = "waiting"
    /\ UNCHANGED <<detectorOutput, overrides, meta, prepared, landmarkOutputs,
                   options, scene>>
    /\ UNCHANGED appVars
    /\ UNCHANGED relVars
    /\ UNCHANGED poseVars
    /\ UNCHANGED otherVars

\* runAtTargetFps(20, ...) does not run its body on this frame, App.tsx:411
FrameThrottled ==
    /\ dPhase = "input"
    /\ ModelsReady
    /\ dPhase' = "waiting"
    /\ UNCHANGED <<detectorOutput, overrides, meta, prepared, landmarkOutputs,
                   options, scene>>
    /\ UNCHANGED appVars
    /\ UNCHANGED relVars
    /\ UNCHANGED poseVars
    /\ UNCHANGED otherVars

\* the frame processor runs its body on the camera frame
ProcessCameraFrame ==
    /\ dPhase = "input"
    /\ handDetectionFrameProcessor(CameraLandmarkResults)

\* onFrameProcessed, App.tsx:189-193, called after onSceneUpdated, App.tsx:469
OnFrameProcessed ==
    /\ dPhase = "delivered"
    /\ detectionCount' = detectionCount + 1
    /\ dPhase' = "waiting"
    /\ UNCHANGED <<detectorOutput, overrides, meta, prepared, landmarkOutputs,
                   options, scene>>
    /\ UNCHANGED <<uiVars, sceneVars, memoVars, handHistoryRef, loadVars, frameCount>>
    /\ UNCHANGED relVars
    /\ UNCHANGED poseVars
    /\ UNCHANGED otherVars

NextApp ==
    \/ DetectorSettles
    \/ LandmarksSettles
    \/ CameraFrame
    \/ FrameSkipped
    \/ FrameThrottled
    \/ ProcessCameraFrame
    \/ OnSceneUpdated
    \/ OnFrameProcessed
    \/ RenderHandsForDisplay
    \/ ToggleSmoothedLandmarks
    \/ WindowResized

SpecApp == InitApp /\ [][NextApp]_vars

C18_SkippedFrameLeavesNoTrace ==
    [][(/\ dPhase = "input"
        /\ (detectorState # "loaded" \/ landmarksState # "loaded")
        /\ dPhase' # "input") =>
          /\ dPhase' = "waiting"
          /\ UNCHANGED <<prepared, landmarkOutputs, options, scene>>
          /\ UNCHANGED <<sceneVars, handHistoryRef, memoVars, detectionCount>>]_vars

\* C18 witness: two camera frames came while the landmark model was still
\* loading, the detector loaded; nothing was processed.
C18_Witness ==
    /\ dPhase = "waiting"
    /\ frameCount = 2
    /\ detectorState = "loaded"
    /\ landmarksState = "loading"
    /\ detectionCount = 0
    /\ sceneInterpretation = NoScene
    /\ scene = NoScene

\* ---------------------------------------------------------------------
\* computeHandPose on hands of chosen palm size, pinch distance and spread.
\* ---------------------------------------------------------------------

\* offsets in pixels whose length is an integer: 0, 1, 5 and 10
PoseOffsets == { <<0, 0>>, <<0, 1>>, <<3, 4>>, <<-6, 8>> }

\* landmark n - 1 at (from + by) pixels
PosePoint(from, by) ==
    [x |-> (from[1] + by[1]) * PxUnit * LmUnit,
     y |-> (from[2] + by[2]) * PxUnit * LmUnit,
     z |-> 0]

\* 21 finite landmarks: the wrist at (0, 0), the middle and ring MCP at
\* toMiddle and toRing from it, the index tip at toIndexTip from the thumb
\* tip, the pinky MCP at toPinky from the index MCP
PoseHand(toMiddle, toRing, toIndexTip, toPinky) ==
    [n \in 1..LANDMARK_COUNT |->
        CASE n = 1 -> PosePoint(<<0, 0>>, <<0, 0>>)
          [] n = 10 -> PosePoint(<<0, 0>>, toMiddle)
          [] n = 14 -> PosePoint(<<0, 0>>, toRing)
          [] n = 5 -> PosePoint(<<2, 2>>, <<0, 0>>)
          [] n = 9 -> PosePoint(<<2, 2>>, toIndexTip)
          [] n = 6 -> PosePoint(<<1, 0>>, <<0, 0>>)
          [] n = 18 -> PosePoint(<<1, 0>>, toPinky)
          [] OTHER -> PosePoint(<<n, n>>, <<0, 0>>)]

PoseInputs ==
    { PoseHand(a, b, c, d) : a \in PoseOffsets, b \in {<<0, 0>>, <<3, 4>>},
                             c \in PoseOffsets, d \in PoseOffsets }

InitPose ==
    /\ DetIdle
    /\ RelIdle
    /\ AppIdle
    /\ OthersIdle
    /\ poseLandmarks \in PoseInputs
    /\ pose = NoPose

ComputeHandPose ==
    /\ pose = NoPose
    /\ pose' = computeHandPose(poseLandmarks)
    /\ UNCHANGED poseLandmarks
    /\ UNCHANGED <<detVars, relVars, appVars>>
    /\ UNCHANGED otherVars

NextPose == ComputeHandPose

SpecPose == InitPose /\ [][NextPose]_vars

\* v is a fraction between 0 and 1
InUnitRange(v) == v.kind = "finite" /\ 0 <= v.num /\ v.num <= v.den

\* C19: the spread computeHandPose returns for 21 finite landmarks is a
\* finite number between 0 and 1, hands of palm size 0 included.
C19_SpreadFiniteInUnitRange ==
    pose # NoPose => InUnitRange(pose.spread)

\* the distance of the thumb tip to the index tip and the palm size of the
\* hand at hand, in pixels, read off the offsets the hand was built from
TipsApart ==
    CHOOSE d \in {0, 1, 5, 10} :
        LET dx == poseLandmarks[5].x - poseLandmarks[9].x
            dy == poseLandmarks[5].y - poseLandmarks[9].y
            side == d * PxUnit * LmUnit
        IN  side * side = dx * dx + dy * dy
PalmSides ==
    CHOOSE sides \in {0, 1, 5, 10} \X {0, 5} :
        LET ax == poseLandmarks[1].x - poseLandmarks[10].x
            ay == poseLandmarks[1].y - poseLandmarks[10].y
            bx == poseLandmarks[1].x - poseLandmarks[14].x
            by == poseLandmarks[1].y - poseLandmarks[14].y
            a == sides[1] * PxUnit * LmUnit
            b == sides[2] * PxUnit * LmUnit
        IN  a * a = ax * ax + ay * ay /\ b * b = bx * bx + by * by
PalmSizePx == PalmSides[1] + PalmSides[2]

\* C20: pinchStrength is 1 - dist / (0.8 * palmSpan), palmSpan the larger of
\* half the palm size and 1, clamped to [0,1]: it is a finite number
\* between 0 and 1; isPinching holds exactly when it is above 0.6; and a
\* thumb tip on the index tip gives pinchStrength 1 and isPinching true
\* whatever the palm size.
C20_PinchStrengthClamped ==
    pose # NoPose =>
        LET strength == pose.pinchStrength
            palmSpanTwice == IF PalmSizePx > 2 THEN PalmSizePx ELSE 2
        IN  /\ InUnitRange(strength)
            /\ pose.isPinching <=> 10 * strength.num > 6 * strength.den
            /\ IF 5 * TipsApart >= 2 * palmSpanTwice
               THEN strength.num = 0
               ELSE strength.num * 2 * palmSpanTwice
                       = strength.den * (2 * palmSpanTwice - 5 * TipsApart)
            /\ TipsApart = 0 => (strength.num = strength.den /\ pose.isPinching)

\* C20 witness: a hand of palm size 0 whose thumb tip is on its index tip is
\* pinching with strength 1.
C20_Witness ==
    /\ pose # NoPose
    /\ PalmSizePx = 0
    /\ poseLandmarks[5] = poseLandmarks[9]
    /\ pose.pinchStrength.num = pose.pinchStrength.den
    /\ pose.isPinching

\* ---------------------------------------------------------------------
\* computeHandPose on hands whose fingers bend by known angles.
\* ---------------------------------------------------------------------

FingerNames == <<"Thumb", "Index", "Middle", "Ring", "Pinky">>

\* directions of pip -> tip, with the angle each makes with the x axis, in
\* hundredths of a degree (rounded); the null direction makes the angle 0
\* that angleBetween returns for it
FingerDirections ==
    << <<<<1, 0, 0>>, 0>>, <<<<-1, 0, 0>>, 18000>>, <<<<2, 1, 0>>, 2657>>,
       <<<<4, 3, 0>>, 3687>>, <<<<1, 1, 0>>, 4500>>, <<<<3, 0, 4>>, 5313>>,
       <<<<2, 3, 0>>, 5631>>, <<<<1, 3, 0>>, 7157>>, <<<<1, 4, 0>>, 7596>>,
       <<<<0, 3, 4>>, 9000>>, <<<<-3, 4, 0>>, 12687>>, <<<<-1, 1, 0>>, 13500>>,
       <<<<0, 0, 0>>, 0>>, <<<<3, 4, 0>>, 5313>> >>

\* the direction of finger j (1..5) of hand i
DirectionOf(i, j) == FingerDirections[((i + j - 2) % Len(FingerDirections)) + 1]

\* 21 landmarks: finger j has its pip at (10j, 0, 0), its mcp 2 further
\* along x and its tip at pip - direction, so that mcp - pip is (2, 0, 0) and
\* pip - tip is the direction; the tip of finger nanFinger (Middle, Ring or
\* Pinky, whose tips the pinch and the spread do not read; 0 for none) has a
\* NaN coordinate
FingerHand(i, nanFinger) ==
    [n \in 1..LANDMARK_COUNT |->
        IF n = 1 THEN [x |-> 0, y |-> 0, z |-> 0]
        ELSE LET j == ((n - 2) \div 4) + 1
                 role == (n - 2) % 4
                 direction == DirectionOf(i, j)[1]
             IN  CASE role = 0 -> [x |-> 10 * j + 2, y |-> 0, z |-> 0]
                   [] role = 3 /\ j = nanFinger ->
                        [x |-> 0, y |-> 0, z |-> 0, nan |-> TRUE]
                   [] role = 3 -> [x |-> 10 * j - direction[1],
                                   y |-> -direction[2], z |-> -direction[3]]
                   [] OTHER -> [x |-> 10 * j, y |-> 0, z |-> 0]]

NaNFingers == {0, 3, 4, 5}

FingerInputs ==
    { FingerHand(i, nanFinger) : i \in 1..Len(FingerDirections),
                                 nanFinger \in NaNFingers }

InitFingers ==
    /\ DetIdle
    /\ RelIdle
    /\ AppIdle
    /\ OthersIdle
    /\ poseLandmarks \in FingerInputs
    /\ pose = NoPose

SpecFingers == InitFingers /\ [][NextPose]_vars

\* the state of a finger bent by an angle given in hundredths of a degree
StateOfAngle(centidegrees) ==
    IF centidegrees < 5500 THEN "Open"
    ELSE IF centidegrees < 7500 THEN "Pointing"
    ELSE "Closed"

\* C21: each finger is Open when the angle between mcp -> pip and pip -> tip
\* is below 55 degrees, Pointing from 55 to below 75, Closed from 75 on, and
\* Unknown exactly when the angle is not finite; 0 degrees gives Open and 180
\* degrees gives Closed.
C21_FingersClassifiedByAngle ==
    pose # NoPose =>
        \A i \in 1..Len(FingerDirections), nanFinger \in NaNFingers :
            poseLandmarks = FingerHand(i, nanFinger) =>
                \A j \in 1..5 :
                    pose.fingers[FingerNames[j]] =
                        IF j = nanFinger THEN "Unknown"
                        ELSE StateOfAngle(DirectionOf(i, j)[2])

\* C21 witness: a hand whose thumb is straight (0 degrees, Open), whose
\* index is folded back (180 degrees, Closed) and whose middle finger tip is
\* NaN (Unknown).
C21_Witness ==
    /\ pose # NoPose
    /\ poseLandmarks = FingerHand(1, 3)
    /\ DirectionOf(1, 1) = <<<<1, 0, 0>>, 0>>
    /\ DirectionOf(1, 2) = <<<<-1, 0, 0>>, 18000>>
    /\ pose.fingers["Thumb"] = "Open"
    /\ pose.fingers["Index"] = "Closed"
    /\ pose.fingers["Middle"] = "Unknown"

\* ---------------------------------------------------------------------
\* Landmarks on the ROI and the ROI on the frame
\* ---------------------------------------------------------------------

\* the value 3i + c (c = 1 for x, 2 for y, 3 for z) of hand k's landmark vector
RawValue(k, i, c) == landmarkOutputs[k].landmarks[3 * i + c]

RoiOf(k) == DetectionsInForce.roiBoxesOnFrame[k]

\* where the normalized value v (in 1/LmUnit) falls between lo and hi, in
\* landmark units
Between(lo, hi, v) == lo * LmUnit + v * (hi - lo)

\* C22: mapLandmarksToFrame maps normalized (0,0) to (roi.xMin, roi.yMin)
\* and (1,1) to (roi.xMax, roi.yMax) for every ROI of prepareDetections,
\* clipped ones included, limits normalized x and y to [-0.5, 1.5] before
\* mapping, and passes z through unchanged.
C22_LandmarksSpanTheRoi ==
    dPhase = "interpreted" =>
        \A k \in 1..Len(scene.hands) :
            \A i \in 0..(LANDMARK_COUNT - 1) :
                LET point == scene.hands[k].landmarks[i + 1]
                    roi == RoiOf(k)
                    x == RawValue(k, i, 1)
                    y == RawValue(k, i, 2)
                IN  /\ x = 0 => point.x = roi.xMin * LmUnit
                    /\ y = 0 => point.y = roi.yMin * LmUnit
                    /\ x = LmUnit => point.x = roi.xMax * LmUnit
                    /\ y = LmUnit => point.y = roi.yMax * LmUnit
                    /\ 2 * x <= -LmUnit =>
                          point.x = Between(roi.xMin, roi.xMax, -(LmUnit \div 2))
                    /\ 2 * y <= -LmUnit =>
                          point.y = Between(roi.yMin, roi.yMax, -(LmUnit \div 2))
                    /\ 2 * x >= 3 * LmUnit =>
                          point.x = Between(roi.xMin, roi.xMax, (3 * LmUnit) \div 2)
                    /\ 2 * y >= 3 * LmUnit =>
                          point.y = Between(roi.yMin, roi.yMax, (3 * LmUnit) \div 2)
                    /\ (-LmUnit <= 2 * x /\ 2 * x <= 3 * LmUnit) =>
                          point.x = Between(roi.xMin, roi.xMax, x)
                    /\ (-LmUnit <= 2 * y /\ 2 * y <= 3 * LmUnit) =>
                          point.y = Between(roi.yMin, roi.yMax, y)
                    /\ point.z = RawValue(k, i, 3)

\* a ROI of positive width and height that the frame border has cut
ClippedRoi(roi) ==
    /\ roi.xMax > roi.xMin
    /\ roi.yMax > roi.yMin
    /\ roi.xMax - roi.xMin # roi.yMax - roi.yMin

\* C22 witness: on a clipped ROI one hand has a landmark at normalized (0,0)
\* on the ROI's top-left corner and one at (1,1) on its bottom-right corner,
\* and a hand has a landmark of normalized x = 2 drawn at 1.5.
C22_Witness ==
    /\ dPhase = "interpreted"
    /\ \E k \in 1..Len(scene.hands) :
          /\ ClippedRoi(RoiOf(k))
          /\ \E i \in 0..(LANDMARK_COUNT - 1) :
                /\ RawValue(k, i, 1) = 0
                /\ RawValue(k, i, 2) = 0
                /\ scene.hands[k].landmarks[i + 1].x = RoiOf(k).xMin * LmUnit
                /\ scene.hands[k].landmarks[i + 1].y = RoiOf(k).yMin * LmUnit
          /\ \E i \in 0..(LANDMARK_COUNT - 1) :
                /\ RawValue(k, i, 1) = LmUnit
                /\ RawValue(k, i, 2) = LmUnit
                /\ scene.hands[k].landmarks[i + 1].x = RoiOf(k).xMax * LmUnit
                /\ scene.hands[k].landmarks[i + 1].y = RoiOf(k).yMax * LmUnit
    /\ \E k \in 1..Len(scene.hands) :
          /\ ClippedRoi(RoiOf(k))
          /\ \E i \in 0..(LANDMARK_COUNT - 1) :
                /\ RawValue(k, i, 1) = 2 * LmUnit
                /\ scene.hands[k].landmarks[i + 1].x =
                      Between(RoiOf(k).xMin, RoiOf(k).xMax, (3 * LmUnit) \div 2)
                /\ RawValue(k, i, 3) # 0
                /\ scene.hands[k].landmarks[i + 1].z = RawValue(k, i, 3)

\* frames of one pixel, of 4x3 and of 8x8 pixels
RoiMetas ==
    Metas \cup { [frameWidth |-> 1, frameHeight |-> 1, frameId |-> 7],
                 [frameWidth |-> 8, frameHeight |-> 8, frameId |-> 7] }

InitRoi ==
    /\ dPhase = "input"
    /\ detectorOutput \in InterpretDetectorOutputs
    /\ overrides \in InterpretOverrides
    /\ meta \in RoiMetas
    /\ prepared = NoPrepared
    /\ landmarkOutputs = << >>
    /\ options = << >>
    /\ scene = NoScene
    /\ RelIdle
    /\ PoseIdle
    /\ OthersIdle
    /\ AppIdle

SpecRoi == InitRoi /\ [][NextPrepare]_vars

\* half the side of the square asked for around a box on the frame
HalfSquare(box) ==
    ((MathMax(box.wPx, box.hPx) * PreparedParams.roiExpansion) \div Milli) \div 2

SquareInsideFrame(box) ==
    /\ box.cxPx - HalfSquare(box) >= 0
    /\ box.cyPx - HalfSquare(box) >= 0
    /\ box.cxPx + HalfSquare(box) <= (meta.frameWidth - 1) * PxUnit
    /\ box.cyPx + HalfSquare(box) <= (meta.frameHeight - 1) * PxUnit

\* C23: for every accepted box and every frame of at least 1x1 pixels the ROI
\* of prepareDetections has 0 <= xMin <= xMax <= frameWidth - 1 and
\* 0 <= yMin <= yMax <= frameHeight - 1, wPx = xMax - xMin, hPx = yMax - yMin,
\* and is the square of side max(wPx, hPx) * roiExpansion centered on the box
\* center whenever that square lies inside those bounds.
C23_RoiInsideFrame ==
    dPhase = "prepared" =>
        \A k \in 1..Len(prepared.roiBoxesOnFrame) :
            LET roi == prepared.roiBoxesOnFrame[k]
                box == prepared.boxesOnFrame[k]
            IN  /\ 0 <= roi.xMin
                /\ roi.xMin <= roi.xMax
                /\ roi.xMax <= (meta.frameWidth - 1) * PxUnit
                /\ 0 <= roi.yMin
                /\ roi.yMin <= roi.yMax
                /\ roi.yMax <= (meta.frameHeight - 1) * PxUnit
                /\ roi.wPx = roi.xMax - roi.xMin
                /\ roi.hPx = roi.yMax - roi.yMin
                /\ SquareInsideFrame(box) =>
                      /\ roi.xMin = box.cxPx - HalfSquare(box)
                      /\ roi.xMax = box.cxPx + HalfSquare(box)
                      /\ roi.yMin = box.cyPx - HalfSquare(box)
                      /\ roi.yMax = box.cyPx + HalfSquare(box)

\* C23 witness: of two ROIs prepared for one frame, one is the whole square
\* around its box and the other is cut at the last column of pixels.
C23_Witness ==
    /\ dPhase = "prepared"
    /\ \E k \in 1..Len(prepared.roiBoxesOnFrame) :
          /\ SquareInsideFrame(prepared.boxesOnFrame[k])
          /\ HalfSquare(prepared.boxesOnFrame[k]) > 0
          /\ prepared.roiBoxesOnFrame[k].wPx = 2 * HalfSquare(prepared.boxesOnFrame[k])
          /\ prepared.roiBoxesOnFrame[k].hPx = prepared.roiBoxesOnFrame[k].wPx
    /\ \E k \in 1..Len(prepared.roiBoxesOnFrame) :
          /\ ~SquareInsideFrame(prepared.boxesOnFrame[k])
          /\ prepared.roiBoxesOnFrame[k].xMax = (meta.frameWidth - 1) * PxUnit
          /\ prepared.roiBoxesOnFrame[k].xMin < prepared.roiBoxesOnFrame[k].xMax

\* C23 witness on the smallest frame: a box is accepted on a frame of 1x1
\* pixels and its ROI is the point (0, 0).
C23_WitnessOnePixel ==
    /\ dPhase = "prepared"
    /\ meta.frameWidth = 1
    /\ meta.frameHeight = 1
    /\ Len(prepared.roiBoxesOnFrame) > 0

\* ---------------------------------------------------------------------
\* createPalmDetectionAnchors, loop by loop
\* ---------------------------------------------------------------------

\* calls of createPalmDetectionAnchors followed
AnchorCalls == 2

FeatureMapSize(layer) == CeilDiv(AnchorOptions.inputWidth, AnchorOptions.strides[layer])

\* the cell's anchor without the interpolated one
CellAnchors_RatiosOnly(layer, y, x) ==
    [r \in 1..Len(AnchorOptions.aspectRatios) |->
        [xCenter |-> ((2 * x + 1) * NormUnit) \div (2 * FeatureMapSize(layer)),
         yCenter |-> ((2 * y + 1) * NormUnit) \div (2 * FeatureMapSize(layer)),
         width |-> NormUnit, height |-> NormUnit]]

\* the anchors pushed for cell (x, y) of a layer: anchorOffsetX and
\* anchorOffsetY are 0.5, and fixedAnchorSize makes every anchor 1 x 1 (the
\* scaled sizes of the other branch, never taken, are left at 0)
CellAnchors(layer, y, x) ==
    LET fmHeight == CeilDiv(AnchorOptions.inputHeight, AnchorOptions.strides[layer])
        fmWidth == CeilDiv(AnchorOptions.inputWidth, AnchorOptions.strides[layer])
        xCenter == ((2 * x + 1) * NormUnit) \div (2 * fmWidth)
        yCenter == ((2 * y + 1) * NormUnit) \div (2 * fmHeight)
        sized == IF AnchorOptions.fixedAnchorSize THEN NormUnit ELSE 0
        anchor == [xCenter |-> xCenter, yCenter |-> yCenter,
                   width |-> sized, height |-> sized]
    IN  [r \in 1..Len(AnchorOptions.aspectRatios) |-> anchor]
          \o (IF AnchorOptions.interpolatedScaleAspectRatio > 0
              THEN <<anchor>> ELSE << >>)

InitAnchors ==
    /\ DetIdle
    /\ RelIdle
    /\ AppIdle
    /\ PoseIdle
    /\ OthersIdle

CallCreatePalmDetectionAnchors ==
    /\ genPhase \in {"idle", "returned"}
    /\ Len(genResults) < AnchorCalls
    /\ genPhase' = "loop"
    /\ genLayer' = 1
    /\ genY' = 0
    /\ genAnchors' = << >>
    /\ UNCHANGED genResults
    /\ UNCHANGED <<detVars, relVars, appVars, poseVars, parseVars, photoVars, webVars>>

\* one pass of the body of the loop over y (the whole loop over x), and the
\* loop headers that follow
PushRowAnchors ==
    /\ genPhase = "loop"
    /\ genLayer <= Len(AnchorOptions.strides)
    /\ LET fmHeight == CeilDiv(AnchorOptions.inputHeight, AnchorOptions.strides[genLayer])
           fmWidth == CeilDiv(AnchorOptions.inputWidth, AnchorOptions.strides[genLayer])
       IN  /\ genAnchors' =
                 genAnchors \o Flatten([n \in 1..fmWidth |->
                                          CellAnchors(genLayer, genY, n - 1)])
           /\ IF genY + 1 < fmHeight
              THEN genY' = genY + 1 /\ UNCHANGED genLayer
              ELSE genY' = 0 /\ genLayer' = genLayer + 1
    /\ UNCHANGED <<genPhase, genResults>>
    /\ UNCHANGED <<detVars, relVars, appVars, poseVars, parseVars, photoVars, webVars>>

ReturnAnchors ==
    /\ genPhase = "loop"
    /\ genLayer > Len(AnchorOptions.strides)
    /\ genResults' = Append(genResults, genAnchors)
    /\ genPhase' = "returned"
    /\ UNCHANGED <<genLayer, genY, genAnchors>>
    /\ UNCHANGED <<detVars, relVars, appVars, poseVars, parseVars, photoVars, webVars>>

NextAnchors ==
    \/ CallCreatePalmDetectionAnchors
    \/ PushRowAnchors
    \/ ReturnAnchors

SpecAnchors == InitAnchors /\ [][NextAnchors]_vars

\* the grid size and the cell of the k-th anchor: 24 x 24 cells of two
\* anchors for stride 8, then three grids of 12 x 12 cells for stride 16
GridOf(k) == IF k <= 24 * 24 * 2 THEN 24 ELSE 12
CellOf(k) ==
    IF k <= 24 * 24 * 2 THEN (k - 1) \div 2
    ELSE ((k - 24 * 24 * 2 - 1) % (12 * 12 * 2)) \div 2

\* C24: createPalmDetectionAnchors is deterministic and returns exactly
\* 24*24*2 + 3 * 12*12*2 = 2016 anchors, each of size 1 x 1 with center
\* ((x + 0.5) / gridWidth, (y + 0.5) / gridHeight) strictly inside (0,1).
C24_AnchorGridFixed ==
    \A c \in 1..Len(genResults) :
        LET anchors == genResults[c]
        IN  /\ Len(anchors) = 24 * 24 * 2 + 3 * (12 * 12 * 2)
            /\ anchors = genResults[1]
            /\ anchors = palmDetectionAnchors
            /\ \A k \in 1..Len(anchors) :
                  /\ anchors[k].width = NormUnit
                  /\ anchors[k].height = NormUnit
                  /\ 2 * GridOf(k) * anchors[k].xCenter
                        = (2 * (CellOf(k) % GridOf(k)) + 1) * NormUnit
                  /\ 2 * GridOf(k) * anchors[k].yCenter
                        = (2 * (CellOf(k) \div GridOf(k)) + 1) * NormUnit
                  /\ 0 < anchors[k].xCenter
                  /\ anchors[k].xCenter < NormUnit
                  /\ 0 < anchors[k].yCenter
                  /\ anchors[k].yCenter < NormUnit

\* C24 witness: two calls have returned, with the same 2016 anchors.
C24_Witness ==
    /\ Len(genResults) >= 2
    /\ Len(genResults[2]) = 24 * 24 * 2 + 3 * (12 * 12 * 2)
    /\ genResults[2] = genResults[1]

\* ---------------------------------------------------------------------
\* The decoder on rows whose values tell their positions apart
\* ---------------------------------------------------------------------

\* no offset at all: the anchor itself, of size exp(0) = 1
RowZero == Row(0, 0, 0, 0, 0)

\* y = 4, x = 8, h = -301, w = -178, keypoint k (from 0): y = 8k + 4, x = 8k + 8
RowOrdered ==
    <<4, 8, -301, -178>>
      \o Flatten([k \in 1..PALM_KEYPOINT_COUNT |-> <<8 * k - 4, 8 * k>>])

DecodeAnchorOutputs ==
    { <<0, RowZero>>, <<0, RowOrdered>>, <<2197, RowZero>>, <<1386, RowOrdered>>,
      <<-847, RowBase>> }

DecodeDetectorOutputs ==
    { MakeDetectorOutput(outs, 0, 0) : outs \in [1..NumAnchors -> DecodeAnchorOutputs] }

\* every box of score 0.5 and more kept, whatever it overlaps; the defaults
DecodeOverrides ==
    { [scoreThreshold |-> 500, iouThreshold |-> Milli, maxHands |-> MaxHandsBound],
      << >> }

InitDecode ==
    /\ dPhase = "input"
    /\ detectorOutput \in DecodeDetectorOutputs
    /\ overrides \in DecodeOverrides
    /\ meta \in Metas
    /\ prepared = NoPrepared
    /\ landmarkOutputs = << >>
    /\ options = << >>
    /\ scene = NoScene
    /\ RelIdle
    /\ PoseIdle
    /\ AppIdle
    /\ OthersIdle

SpecDecode == InitDecode /\ [][NextPrepare]_vars

\* value j (from 0) of the 18 raw values of anchor i (from 0)
RawOf(i, j) == detectorOutput.rawBoxes[i * DETECTION_VALUES_PER_ANCHOR + j + 1]

\* raw / 192 of an anchor of size 1, in 1/NormUnit
Shift(raw) == (raw * NormUnit) \div DETECTOR_SCALE

\* C25: an anchor of raw score logit 0 and box offsets all 0 decodes to score
\* exactly 0.5 and center exactly the anchor's center; the raw values of an
\* anchor are read as y, x, h, w and then 7 keypoints (y, x).
C25_ZeroRowDecodesToAnchor ==
    dPhase = "prepared" =>
        \A n \in 1..Len(prepared.boxes) :
            LET box == prepared.boxes[n]
                i == box.id
                anchor == ModelAnchors[i + 1]
            IN  /\ (detectorOutput.rawScores[i + 1] = 0
                      /\ \A j \in 0..3 : RawOf(i, j) = 0) =>
                      /\ box.score = Milli \div 2
                      /\ box.cx = anchor.xCenter
                      /\ box.cy = anchor.yCenter
                /\ box.cy = anchor.yCenter + Shift(RawOf(i, 0))
                /\ box.cx = anchor.xCenter + Shift(RawOf(i, 1))
                /\ box.h = ExpOverScale(RawOf(i, 2))
                /\ box.w = ExpOverScale(RawOf(i, 3))
                /\ \A k \in 0..(PALM_KEYPOINT_COUNT - 1) :
                      /\ box.palmKeypoints[k + 1].y
                            = anchor.yCenter + Shift(RawOf(i, 4 + 2 * k))
                      /\ box.palmKeypoints[k + 1].x
                            = anchor.xCenter + Shift(RawOf(i, 4 + 2 * k + 1))

\* C25 witness: the boxes prepared hold one decoded from logit 0 and an
\* all-zero row, at score 0.5 on its anchor, and one decoded from a row of
\* distinct values.
C25_Witness ==
    /\ dPhase = "prepared"
    /\ \E n \in 1..Len(prepared.boxes) :
          /\ detectorOutput.rawScores[prepared.boxes[n].id + 1] = 0
          /\ \A j \in 0..(DETECTION_VALUES_PER_ANCHOR - 1) :
                RawOf(prepared.boxes[n].id, j) = 0
          /\ prepared.boxes[n].score = Milli \div 2
          /\ prepared.boxes[n].cx = ModelAnchors[prepared.boxes[n].id + 1].xCenter
          /\ prepared.boxes[n].cy = ModelAnchors[prepared.boxes[n].id + 1].yCenter
    /\ \E n \in 1..Len(prepared.boxes) :
          /\ RawOf(prepared.boxes[n].id, 0) # RawOf(prepared.boxes[n].id, 1)
          /\ prepared.boxes[n].cx # ModelAnchors[prepared.boxes[n].id + 1].xCenter

\* ---------------------------------------------------------------------
\* qualityScore of the hands interpretFrame builds
\* ---------------------------------------------------------------------

\* 21 visibilities of mean 0.5, of mean 1.5 and of mean -0.25
VisibilityHalf == [n \in 1..LANDMARK_COUNT |-> IF n % 3 = 0 THEN 0 ELSE 750]
VisibilityAbove == [n \in 1..LANDMARK_COUNT |-> 1500]
VisibilityBelow == [n \in 1..LANDMARK_COUNT |-> -250]

\* MLRawLandmarksOutput with and without its optional fields: as
\* parseLandmarkResult fills them (landmarkScore = presenceScore ??
\* handednessScore), and as another caller of interpretFrame may
QualityOutputs ==
    << RawRight,
       With(RawRight, "presenceScore", 400),
       With(RawLeft, "presenceScore", 0),
       With(With(RawRight, "presenceScore", 400), "landmarkScore", 400),
       With(With(RawRight, "presenceScore", 400), "landmarkScore", 700),
       With(RawLeft, "landmarkScore", 3000),
       With(RawRight, "visibility", << >>),
       With(RawRight, "visibility", VisibilityHalf),
       With(With(RawLeft, "visibility", VisibilityAbove), "presenceScore", Milli),
       With(RawLeft, "visibility", VisibilityBelow) >>

QualityOutputLists ==
    { <<QualityOutputs[a], QualityOutputs[b]>> :
        a \in 1..Len(QualityOutputs), b \in {1, 5, 8} }

QualityDetectorOutputs ==
    { MakeDetectorOutput(outs, 0, 0) :
        outs \in [1..NumAnchors -> { <<2197, RowZero>>, <<0, RowOrdered>>,
                                     <<-847, RowBase>> }] }

InitQuality ==
    /\ dPhase = "input"
    /\ detectorOutput \in QualityDetectorOutputs
    /\ overrides \in DecodeOverrides
    /\ meta \in Metas
    /\ prepared = NoPrepared
    /\ landmarkOutputs = << >>
    /\ options = << >>
    /\ scene = NoScene
    /\ RelIdle
    /\ PoseIdle
    /\ AppIdle
    /\ OthersIdle

InterpretScored ==
    /\ dPhase = "prepared"
    /\ InterpretFrameCall(QualityOutputLists)
    /\ UNCHANGED <<detectorOutput, overrides, meta, prepared>>
    /\ UNCHANGED relVars
    /\ UNCHANGED poseVars
    /\ UNCHANGED otherVars
    /\ UNCHANGED appVars

NextQuality == Prepare \/ InterpretScored

SpecQuality == InitQuality /\ [][NextQuality]_vars

\* the mean of a visibility vector limited to [0,1], 1 without a vector or
\* with an empty one
VisMeanOf(raw) ==
    IF Has(raw, "visibility") /\ Len(raw.visibility) > 0
    THEN Clamp(SumOfValues(raw.visibility) \div Len(raw.visibility), 0, Milli)
    ELSE Milli

Weighted(detectionScore, landmarkScore, visMean) ==
    Clamp((5 * detectionScore + 3 * landmarkScore + 2 * visMean) \div 10, 0, Milli)

\* C26 as stated: qualityScore = clamp(0.5 detectionScore + 0.3 landmarkScore
\* + 0.2 visMean, 0, 1), landmarkScore being the presence score when present
\* and the handedness score otherwise.
C26_QualityFromPresenceScore ==
    dPhase = "interpreted" =>
        \A k \in 1..Len(scene.hands) :
            scene.hands[k].qualityScore =
                Weighted(scene.hands[k].detectionBox.score,
                         FieldOr(landmarkOutputs[k], "presenceScore",
                                 landmarkOutputs[k].handednessScore),
                         VisMeanOf(landmarkOutputs[k]))

\* C26 amended: qualityScore of every HandState equals clamp(0.5
\* detectionScore + 0.3 landmarkScore + 0.2 visMean, 0, 1), where
\* landmarkScore is the landmarkScore field of the raw landmark output when
\* it has one, otherwise the presence score when present, otherwise the
\* handedness score, and visMean is the mean visibility clamped to [0,1],
\* taken as 1 when the visibility vector is absent or empty.
C26_QualityFromLandmarkScore ==
    dPhase = "interpreted" =>
        \A k \in 1..Len(scene.hands) :
            LET raw == landmarkOutputs[k]
                landmarkScore ==
                    IF Has(raw, "landmarkScore") THEN raw.landmarkScore
                    ELSE IF Has(raw, "presenceScore") THEN raw.presenceScore
                    ELSE raw.handednessScore
            IN  scene.hands[k].qualityScore =
                    Weighted(scene.hands[k].detectionBox.score, landmarkScore,
                             VisMeanOf(raw))

\* C26 witness: a scene holds a hand whose raw output has a landmarkScore of
\* 0.7 beside a presence score of 0.4 and no visibility, scored on 0.7, and a
\* hand with visibilities of mean 0.5 and no presence score, scored on them
\* and on its handedness score.
C26_Witness ==
    /\ dPhase = "interpreted"
    /\ Len(scene.hands) = 2
    /\ landmarkOutputs[1] = QualityOutputs[5]
    /\ scene.hands[1].detectionBox.score = 900
    /\ scene.hands[1].qualityScore = 450 + 210 + 200
    /\ landmarkOutputs[2] = QualityOutputs[8]
    /\ scene.hands[2].qualityScore
          = (5 * scene.hands[2].detectionBox.score + 3 * 900 + 2 * 500) \div 10

\* ---------------------------------------------------------------------
\* parseLandmarkResult on the output tensors of the landmark model
\* ---------------------------------------------------------------------

\* auxiliary tensors in a model output
MaxAuxTensors == 3

\* values in 1/Milli; NaN values (which clampProbability turns into 0) are
\* not drawn
clampProbability(value) == MathMax(0, MathMin(Milli, value))

\* the locals of parseLandmarkResult before its loop; presenceScore and
\* visibility are undefined (absent)
ParseStart == [handednessScore |-> 500, scalarConsumed |-> FALSE]

\* the handedness read from the first element of a length-2 tensor
ParseTensor_FirstOfTwo(acc, entry) ==
    IF entry = << >> THEN acc
    ELSE IF Len(entry[1]) = 1
    THEN IF ~acc.scalarConsumed
         THEN With(With(acc, "presenceScore", clampProbability(entry[1][1])),
                   "scalarConsumed", TRUE)
         ELSE [acc EXCEPT !.handednessScore = clampProbability(entry[1][1])]
    ELSE IF Len(entry[1]) = 2
    THEN [acc EXCEPT !.handednessScore = clampProbability(entry[1][1])]
    ELSE IF ~Has(acc, "visibility") /\ Len(entry[1]) \in {21, 63}
    THEN With(acc, "visibility", entry[1])
    ELSE acc

\* one pass of the loop body; an entry of outputs is << >> when it holds no
\* tensor and <<tensor>> otherwise
ParseTensor(acc, entry) ==
    IF entry = << >> THEN acc
    ELSE LET tensor == entry[1]
         IN  IF Len(tensor) = 1
             THEN IF ~acc.scalarConsumed
                  THEN With(With(acc, "presenceScore", clampProbability(tensor[1])),
                            "scalarConsumed", TRUE)
                  ELSE [acc EXCEPT !.handednessScore = clampProbability(tensor[1])]
             ELSE IF Len(tensor) = 2
             THEN [acc EXCEPT !.handednessScore = clampProbability(tensor[2])]
             ELSE IF ~Has(acc, "visibility") /\ Len(tensor) \in {21, 63}
             THEN With(acc, "visibility", tensor)
             ELSE acc

\* the loop from outputs[i] on (i from 1)
RECURSIVE ParseFrom(_, _, _)
ParseFrom(outputs, i, acc) ==
    IF i >= Len(outputs) THEN acc
    ELSE ParseFrom(outputs, i + 1, ParseTensor(acc, outputs[i + 1]))

parseLandmarkResult(outputs) ==
    LET landmarks == IF Len(outputs) > 0 /\ outputs[1] # << >> THEN outputs[1][1]
                     ELSE [n \in 1..63 |-> 0]
        acc == ParseFrom(outputs, 1, ParseStart)
        handedness == IF acc.handednessScore >= 500 THEN "Right" ELSE "Left"
        required == [landmarks |-> landmarks,
                     handedness |-> handedness,
                     handednessScore |-> acc.handednessScore,
                     landmarkScore |-> FieldOr(acc, "presenceScore", acc.handednessScore)]
        withPresence == IF Has(acc, "presenceScore")
                        THEN With(required, "presenceScore", acc.presenceScore)
                        ELSE required
    IN  IF Has(acc, "visibility")
        THEN With(withPresence, "visibility", acc.visibility)
        ELSE withPresence

\* 63 visibilities
VisibilityLong == [n \in 1..63 |-> 250]

\* what may follow the landmarks in the outputs: no tensor, tensors of
\* length 0 and 5, scalars, two-class pairs, visibility vectors
AuxTensors ==
    { << >>, << << >> >>, << <<100, 200, 300, 400, 500>> >>,
      << <<300>> >>, << <<800>> >>, << <<1200>> >>,
      << <<700, 300>> >>, << <<200, 800>> >>, << <<500, -100>> >>,
      <<VisibilityHalf>>, <<VisibilityLong>> }

RECURSIVE AuxLists(_)
AuxLists(n) ==
    IF n = 0 THEN { << >> }
    ELSE AuxLists(n - 1)
           \cup { Append(l, t) : l \in { m \in AuxLists(n - 1) : Len(m) = n - 1 },
                                 t \in AuxTensors }

ParseInputs ==
    { << >> } \cup { <<first>> \o aux : first \in { << >>, <<LmInside>> },
                                       aux \in AuxLists(MaxAuxTensors) }

InitParse ==
    /\ DetIdle
    /\ RelIdle
    /\ AppIdle
    /\ PoseIdle
    /\ GenIdle
    /\ PhotoIdle
    /\ WebIdle
    /\ parseOutputs \in ParseInputs
    /\ parsed = << >>

ParseLandmarkResult ==
    /\ parsed = << >>
    /\ parsed' = parseLandmarkResult(parseOutputs)
    /\ UNCHANGED parseOutputs
    /\ UNCHANGED <<detVars, relVars, appVars, poseVars, genVars, photoVars, webVars>>

NextParse == ParseLandmarkResult

SpecParse == InitParse /\ [][NextParse]_vars

\* positions (from 1) of the auxiliary tensors of a given length
AuxOfLength(n) ==
    { i \in 2..Len(parseOutputs) :
        parseOutputs[i] # << >> /\ Len(parseOutputs[i][1]) = n }

SetMin(S) == CHOOSE i \in S : \A j \in S : i <= j
SetMax(S) == CHOOSE i \in S : \A j \in S : i >= j

\* the tensors that set the handedness score: those of length 2 and the
\* scalars after the first scalar
HandednessTensors ==
    AuxOfLength(2)
      \cup (IF AuxOfLength(1) = {} THEN {}
            ELSE AuxOfLength(1) \ {SetMin(AuxOfLength(1))})

Probability(v) == IF v < 0 THEN 0 ELSE IF v > Milli THEN Milli ELSE v

\* C27: parseLandmarkResult assigns the auxiliary tensors by length alone: a
\* tensor of length 1 is a scalar score (the first one the presence score, a
\* later one the handedness score), a tensor of length 2 is the handedness
\* softmax (its second element, limited to [0,1], is the handedness score),
\* the first tensor of length 21 or 63 is the visibility vector; without a
\* usable auxiliary tensor handednessScore is 0.5; handedness is Right
\* exactly when handednessScore >= 0.5.
C27_TensorsAssignedByLength ==
    parsed # << >> =>
        /\ IF AuxOfLength(1) = {} THEN ~Has(parsed, "presenceScore")
           ELSE /\ Has(parsed, "presenceScore")
                /\ parsed.presenceScore
                      = Probability(parseOutputs[SetMin(AuxOfLength(1))][1][1])
        /\ IF HandednessTensors = {} THEN parsed.handednessScore = 500
           ELSE LET tensor == parseOutputs[SetMax(HandednessTensors)][1]
                IN  parsed.handednessScore = Probability(tensor[Len(tensor)])
        /\ IF AuxOfLength(21) \cup AuxOfLength(63) = {}
           THEN ~Has(parsed, "visibility")
           ELSE /\ Has(parsed, "visibility")
                /\ parsed.visibility
                      = parseOutputs[SetMin(AuxOfLength(21) \cup AuxOfLength(63))][1]
        /\ parsed.handedness = "Right" <=> parsed.handednessScore >= 500
        /\ parsed.handedness \in {"Left", "Right"}

\* C27 witness: the outputs hold, after the landmarks, a visibility vector, a
\* scalar and a pair whose second element is 0.3: presence is the scalar,
\* the hand is Left at 0.3 and the vector is the visibility.
C27_Witness ==
    /\ parsed # << >>
    /\ Len(parseOutputs) = 4
    /\ parseOutputs[2] = <<VisibilityHalf>>
    /\ parseOutputs[3] = << <<800>> >>
    /\ parseOutputs[4] = << <<700, 300>> >>
    /\ parsed.presenceScore = 800
    /\ parsed.handednessScore = 300
    /\ parsed.handedness = "Left"
    /\ parsed.visibility = VisibilityHalf

\* C27 witness without a usable tensor: a length-5 tensor and an empty slot
\* follow the landmarks, and the hand is Right at 0.5.
C27_WitnessDefaults ==
    /\ parsed # << >>
    /\ Len(parseOutputs) = 3
    /\ AuxOfLength(1) \cup AuxOfLength(2) \cup AuxOfLength(21) \cup AuxOfLength(63) = {}
    /\ parsed.handednessScore = 500
    /\ parsed.handedness = "Right"

\* ---------------------------------------------------------------------
\* The stabilizer history under recomputations of handsForDisplay
\* ---------------------------------------------------------------------

\* C28: each scene contributes at most one entry to the stabilizer history of
\* any identity: recomputing handsForDisplay for the same scene (smoothing
\* toggled off and on again, or the preview size changing) does not append
\* the frame's landmarks a second time.  One frame is processed under
\* SpecDisplay, so the history of an identity holds at most one entry there.
C28_OneEntryPerScene ==
    \A id \in DOMAIN handHistoryRef : Len(handHistoryRef[id]) <= 1

\* ---------------------------------------------------------------------
\* The shutter: handleTakePhoto, the renders and the photo promises
\* ---------------------------------------------------------------------

\* presses of the shutter button followed
MaxShutterPresses == 4

InitPhoto ==
    /\ DetIdle
    /\ RelIdle
    /\ AppIdle
    /\ PoseIdle
    /\ GenIdle
    /\ ParseIdle
    /\ PhotoIdle
    /\ WebIdle

\* the Camera is rendered and its ref attached
CameraAttached ==
    /\ cameraRef = "null"
    /\ cameraRef' = "camera"
    /\ UNCHANGED <<isTakingPhoto, shutterRendered, photosInFlight, shutterPresses,
                   photosSettled>>
    /\ UNCHANGED <<detVars, relVars, appVars, poseVars, genVars, parseVars, webVars>>

\* a press whose setIsTakingPhoto(true) is rendered by a later step only
PressShutter_RenderLater ==
    /\ shutterPresses < MaxShutterPresses
    /\ shutterPresses' = shutterPresses + 1
    /\ IF cameraRef = "null" \/ shutterRendered
       THEN UNCHANGED <<isTakingPhoto, shutterRendered, photosInFlight>>
       ELSE /\ isTakingPhoto' = TRUE
            /\ photosInFlight' = photosInFlight + 1
            /\ UNCHANGED shutterRendered
    /\ UNCHANGED <<cameraRef, photosSettled>>
    /\ UNCHANGED <<detVars, relVars, appVars, poseVars, genVars, parseVars, webVars>>

\* onPress of the shutter: handleTakePhoto of the last render runs up to its
\* await, then React renders the update of this press event before any
\* other event is handled
PressShutter ==
    /\ shutterPresses < MaxShutterPresses
    /\ shutterPresses' = shutterPresses + 1
    /\ IF cameraRef = "null" \/ shutterRendered
       THEN UNCHANGED <<isTakingPhoto, shutterRendered, photosInFlight>>
       ELSE /\ isTakingPhoto' = TRUE
            /\ photosInFlight' = photosInFlight + 1
            /\ shutterRendered' = TRUE
    /\ UNCHANGED <<cameraRef, photosSettled>>
    /\ UNCHANGED <<detVars, relVars, appVars, poseVars, genVars, parseVars, webVars>>

\* a takePhoto promise settles and handleTakePhoto resumes: the log of the
\* try or of the catch, then finally; the render of this update comes later
PhotoSettles ==
    /\ photosInFlight > 0
    /\ \E outcome \in {"resolved", "rejected"} :
          photosSettled' = Append(photosSettled, outcome)
    /\ photosInFlight' = photosInFlight - 1
    /\ isTakingPhoto' = FALSE
    /\ UNCHANGED <<shutterRendered, cameraRef, shutterPresses>>
    /\ UNCHANGED <<detVars, relVars, appVars, poseVars, genVars, parseVars, webVars>>

\* React renders App with the state set outside a press event
RenderShutter ==
    /\ shutterRendered # isTakingPhoto
    /\ shutterRendered' = isTakingPhoto
    /\ UNCHANGED <<isTakingPhoto, cameraRef, photosInFlight, shutterPresses,
                   photosSettled>>
    /\ UNCHANGED <<detVars, relVars, appVars, poseVars, genVars, parseVars, webVars>>

NextPhoto ==
    \/ CameraAttached
    \/ PressShutter
    \/ PhotoSettles
    \/ RenderShutter

\* React performs every render it has scheduled
SpecPhoto == InitPhoto /\ [][NextPhoto]_vars /\ WF_vars(RenderShutter)

\* C29: at most one takePhoto call is in flight at any time, under any
\* interleaving of shutter presses, renders and photo completions; once
\* every takePhoto attempt has settled, by success or by failure,
\* isTakingPhoto is false again, and the Camera is rendered active again.
C29_OnePhotoInFlight ==
    /\ [](photosInFlight <= 1)
    /\ [](photosInFlight = 0 => ~isTakingPhoto)
    /\ [][photosInFlight' < photosInFlight => ~isTakingPhoto']_vars
    /\ (photosInFlight = 0) ~> (photosInFlight > 0 \/ ~shutterRendered)

\* C29 witness: two photos have been taken, one resolved and one rejected,
\* presses were made while the first was in flight, and the shutter is
\* rendered enabled again.
C29_Witness ==
    /\ Len(photosSettled) = 2
    /\ photosSettled[1] # photosSettled[2]
    /\ shutterPresses = MaxShutterPresses
    /\ photosInFlight = 0
    /\ ~isTakingPhoto
    /\ ~shutterRendered

\* ---------------------------------------------------------------------
\* The WebView page: start and stop messages and the detection loop
\* ---------------------------------------------------------------------

\* 'start' and 'stop' messages followed, and calls of detectFrame followed
MaxWebMessages == 3
MaxWebIterations == 4

InitWebView ==
    /\ DetIdle
    /\ RelIdle
    /\ AppIdle
    /\ PoseIdle
    /\ GenIdle
    /\ ParseIdle
    /\ PhotoIdle
    /\ WebIdle

\* what is left unchanged by the page
NotWebVars == <<detVars, relVars, appVars, poseVars, genVars, parseVars, photoVars>>

\* the effect on isActive posts 'start' and 'stop' in turn
MayPost(type) ==
    /\ Len(wvMessages) < MaxWebMessages
    /\ wvMessages # << >> => wvMessages[Len(wvMessages)] # type

\* initMediaPipe has created both landmarkers
MediaPipeReady ==
    /\ ~wvReady
    /\ wvReady' = TRUE
    /\ UNCHANGED <<wvMessages, wvGetUserMedia, wvTracksLive, animationFrame,
                   wvFrameRequests, wvSuspended, wvIterations, wvPosted, wvStopped>>
    /\ UNCHANGED NotWebVars

\* 'start' is handled: startCamera runs up to its await of getUserMedia
MessageStart ==
    /\ MayPost("start")
    /\ wvMessages' = Append(wvMessages, "start")
    /\ wvGetUserMedia' = wvGetUserMedia + 1
    /\ wvStopped' = FALSE
    /\ UNCHANGED <<wvTracksLive, wvReady, animationFrame, wvFrameRequests,
                   wvSuspended, wvIterations, wvPosted>>
    /\ UNCHANGED NotWebVars

\* 'stop' is handled: stopCamera cancels the request animationFrame names,
\* if it is still pending, and stops the tracks of video.srcObject
MessageStop ==
    /\ MayPost("stop")
    /\ wvMessages' = Append(wvMessages, "stop")
    /\ wvFrameRequests' = IF animationFrame # 0
                          THEN wvFrameRequests \ {animationFrame}
                          ELSE wvFrameRequests
    /\ wvTracksLive' = FALSE
    /\ wvStopped' = TRUE
    /\ UNCHANGED <<wvGetUserMedia, wvReady, animationFrame, wvSuspended,
                   wvIterations, wvPosted>>
    /\ UNCHANGED NotWebVars

\* a call of detectFrame up to its first return or await, with the requests
\* pending at the call: it asks for another frame when a landmarker is missing
\* or the video is not ready, and otherwise suspends in detectForVideo
DetectFrameBegins(requests, videoReady) ==
    /\ wvIterations < MaxWebIterations
    /\ wvIterations' = wvIterations + 1
    /\ IF ~wvReady \/ ~videoReady
       THEN /\ animationFrame' = animationFrame + 1
            /\ wvFrameRequests' = requests \cup {animationFrame + 1}
            /\ UNCHANGED wvSuspended
       ELSE /\ wvSuspended' = wvSuspended + 1
            /\ wvFrameRequests' = requests
            /\ UNCHANGED animationFrame

\* getUserMedia resolves, startCamera resumes and sets video.srcObject, and
\* onloadedmetadata calls detectFrame
GetUserMediaResolves ==
    /\ wvGetUserMedia > 0
    /\ wvGetUserMedia' = wvGetUserMedia - 1
    /\ wvTracksLive' = TRUE
    /\ \E videoReady \in BOOLEAN : DetectFrameBegins(wvFrameRequests, videoReady)
    /\ UNCHANGED <<wvMessages, wvReady, wvPosted, wvStopped>>
    /\ UNCHANGED NotWebVars

\* getUserMedia rejects: the catch of startCamera
GetUserMediaRejects ==
    /\ wvGetUserMedia > 0
    /\ wvGetUserMedia' = wvGetUserMedia - 1
    /\ UNCHANGED <<wvMessages, wvTracksLive, wvReady, animationFrame,
                   wvFrameRequests, wvSuspended, wvIterations, wvPosted, wvStopped>>
    /\ UNCHANGED NotWebVars

\* a requested animation frame comes and calls detectFrame
AnimationFrameFires ==
    /\ \E id \in wvFrameRequests, videoReady \in BOOLEAN :
          DetectFrameBegins(wvFrameRequests \ {id}, videoReady)
    /\ UNCHANGED <<wvMessages, wvGetUserMedia, wvTracksLive, wvReady, wvPosted,
                   wvStopped>>
    /\ UNCHANGED NotWebVars

\* a suspended detectFrame resumes after its two awaits: it posts
\* 'detection', and 'takePhoto' with two hands, or catches an error, and
\* asks for the next frame
DetectionResumes ==
    /\ wvSuspended > 0
    /\ wvSuspended' = wvSuspended - 1
    /\ \E posts \in { << >>, <<"detection">>, <<"detection", "takePhoto">> } :
          wvPosted' = wvPosted \o posts
    /\ animationFrame' = animationFrame + 1
    /\ wvFrameRequests' = wvFrameRequests \cup {animationFrame + 1}
    /\ UNCHANGED <<wvMessages, wvGetUserMedia, wvTracksLive, wvReady, wvIterations,
                   wvStopped>>
    /\ UNCHANGED NotWebVars

NextWebView ==
    \/ MediaPipeReady
    \/ MessageStart
    \/ MessageStop
    \/ GetUserMediaResolves
    \/ GetUserMediaRejects
    \/ AnimationFrameFires
    \/ DetectionResumes

SpecWebView == InitWebView /\ [][NextWebView]_vars

\* C30: once a 'stop' message has been handled, no detection iteration runs
\* and no 'detection' or 'takePhoto' message is posted until a 'start'
\* message arrives, also when 'stop' arrives while detectFrame is suspended
\* in an await.
C30_StopHaltsDetection ==
    [][wvStopped => (wvIterations' = wvIterations /\ wvPosted' = wvPosted)]_vars

\* a 'stop' handled while a detectFrame is suspended in its await, no
\* getUserMedia pending: the frame resumes, posts and asks for the next one
StoppedWhileSuspended ==
    /\ wvStopped
    /\ wvSuspended > 0
    /\ wvGetUserMedia = 0
    /\ ENABLED DetectionResumes

\* a 'stop' handled with a detectFrame pending as a requested frame only:
\* the request is cancelled and nothing is left to run
StoppedBetweenFrames ==
    /\ wvStopped
    /\ wvSuspended = 0
    /\ wvGetUserMedia = 0
    /\ wvIterations > 0
    /\ wvFrameRequests = {}

====
